---------------------------- MODULE Spec2Model ----------------------------
(***************************************************************************)
(* A model of the CnC tracing layer of CuTeDSL:                            *)
(*   - cutlass/cnc/scheduler.py        tag_push on symbolic coordinates    *)
(*   - cutlass/cnc_dsl/graph/*.py      CnCContext, KernelBuilder, LoopState*)
(*   - cutlass/cnc/ast.py              AstGraphVisitor (diagram flattening)*)
(*   - cutlass/cnc_dsl/steps.py        Step definitions and their tags     *)
(*   - cutlass/cnc_dsl/register.py     CnCOverrideContext                  *)
(*   - cutlass/cnc/symint.py           SymInt and its operators            *)
(*   - cutlass/cnc_dsl/trace.py        Context.register_step               *)
(* The specifications of the module: SpecPush and SpecSeq (tag_push as a   *)
(* pure function over bounded coordinates), Spec (the graph builder driven *)
(* by its public operations), SpecFlat (the flattener over bounded trees), *)
(* SpecCtx (the context stack with step calls and kernel launches under   *)
(* it), SpecStep (step definitions and calls), SpecOvr (override contexts  *)
(* on one thread), SpecOvrThreads (two threads inside the unlocked         *)
(* __enter__ and __exit__ of override contexts, statement by statement),   *)
(* SpecRace (two threads in register_node), SpecTwo (several CnCContext    *)
(* objects in one process), SpecSym (the SymInt constructor and operators) *)
(* and SpecReg (the step registry of trace.Context).                       *)
(***************************************************************************)
EXTENDS Integers, Sequences, FiniteSets, TLC

VARIABLES
    \* ---- tag_push (SpecPush) ----
    tag,            \* the coordinate handed to tag_push
    target,         \* the value handed to tag_push
    pushed,         \* what tag_push returned
    ppc,            \* "input" before the call, "done" after it, "seq" in a run of calls
    binds,          \* the values handed to tag_push so far, in call order
    \* ---- graph builder (Spec) ----
    nodes,          \* heap of CnCNode objects (LoopState / StepState), by handle
    kernels,        \* heap of KernelBuilder objects, by handle
    node_registry,  \* CnCContext.node_registry: node id -> node handle
    kernel_registry,\* CnCContext.kernel_registry: kernel id -> kernel handle
    next_node_id,   \* CnCContext._next_node_id
    next_kernel_id, \* CnCContext._next_kernel_id
    current_kernel_id, \* CnCContext._current_kernel_id (NoId when None)
    tile_count,     \* CnCContext.symtile_source._count
    last,           \* the last operation called and how it ended
    script,         \* how far the calls made so far follow ScenarioScript
    \* ---- flattener (SpecFlat) ----
    tree,           \* the AstExtension tree handed to _ast_to_graph
    graph,          \* what the visitor produced
    fpc,            \* "input" before the visit, "done" after it
    \* ---- context stack (SpecCtx) ----
    ctx_current,    \* CnCContext._current (NoCtx for None)
    prev_context,   \* each context's _prev_context (Unset before its first enter)
    active,         \* the contexts entered and not yet exited, oldest first
    nested,         \* TRUE while the enters and exits so far were properly nested
    \* ---- step definitions (SpecStep) ----
    decl,           \* the arguments of cnc.step: tag and the function's parameters
    step_def,       \* the Step object built from decl
    step_call,      \* the arguments of the last call of the step
    resolved,       \* what _retrive_tag_from_args gave for that call
    spc,            \* "decl", "defined", "rejected" or "called"
    \* ---- override context (SpecOvr) ----
    registry,       \* the OverrideRegistry: registered extensions and function overrides
    attrs,          \* the attributes of the patched classes and modules
    pre_attrs,      \* attrs as it was before the first enter
    ovr_current,    \* _active_context.current of each thread (NoCtx for None)
    ovr_stack,      \* the with-blocks each thread has open, innermost last
    modifications,  \* each context's modifications list
    function_modifications, \* each context's function_modifications list
    ovr_trace,      \* the __enter__ and __exit__ calls made so far
    \* ---- two threads in register_node (SpecRace) ----
    r_pc,           \* where each thread is in register_node
    r_done,         \* how many of its nodes each thread has finished with
    r_node_id,      \* node.id of each thread's nodes (NoId for None)
    r_next,         \* the context's _next_node_id
    r_tmp,          \* the value each thread loaded for _next_node_id += 1
    r_seen,         \* the registry size each thread's iterator was created at
    r_registry,     \* the context's node_registry: id -> node
    r_err,          \* the exception each thread's registrations ended with
    \* ---- several contexts (SpecTwo) ----
    t_ctx,          \* the instance attributes each CnCContext object has
    t_owner,        \* the context each KernelBuilder was registered through
    t_pending,      \* kernel_wrapper calls that are inside their kernel body
    \* ---- SymInt operators (SpecSym) ----
    sym_a,          \* the SymInt whose operator method is called (self)
    sym_b,          \* the other operand (PyNone for the unary operator)
    sym_op,         \* the operator method called ("" before the call)
    sym_res,        \* what the call returned or raised
    sym_pc,         \* "input" before the call, "done" after it
    \* ---- trace.Context step registry (SpecReg) ----
    st_steps,       \* heap of Step objects: their func and _id
    step_registry,  \* Context.step_registry: step id -> Step handle
    step_origin_registry,\* Context.step_origin_registry: step id -> origins
    next_step_id,   \* Context._next_step_id
    st_last,        \* the last register_step call and how it ended
    \* ---- two threads in override contexts (SpecOvrThreads) ----
    o_pc,           \* where each thread is in its with-block
    o_loc           \* each thread's loop positions and saved original

pushVars  == <<tag, target, pushed, ppc, binds>>
graphVars == <<nodes, kernels, node_registry, kernel_registry, next_node_id,
               next_kernel_id, current_kernel_id, tile_count, last, script>>
flatVars  == <<tree, graph, fpc>>
ctxVars   == <<ctx_current, prev_context, active, nested>>
stepVars  == <<decl, step_def, step_call, resolved, spc>>
ovrVars   == <<registry, attrs, pre_attrs, ovr_current, ovr_stack,
               modifications, function_modifications, ovr_trace>>
raceVars  == <<r_pc, r_done, r_node_id, r_next, r_tmp, r_seen, r_registry, r_err>>
twoVars   == <<t_ctx, t_owner, t_pending>>
symVars   == <<sym_a, sym_b, sym_op, sym_res, sym_pc>>
regVars   == <<st_steps, step_registry, step_origin_registry, next_step_id, st_last>>
ovtVars   == <<o_pc, o_loc>>
vars      == <<pushVars, graphVars, flatVars, ctxVars, stepVars,
               ovrVars, raceVars, twoVars, symVars, regVars, ovtVars>>

(***************************************************************************)
(* Bounds of the model.                                                    *)
(***************************************************************************)
MaxWidth == 2       \* longest tuple at each level of a coordinate
MaxNodes == 4       \* CnCNode objects created in one run
MaxKernels == 2     \* KernelBuilder objects created in one run
MaxSlots == 3       \* slots of the composite a run of tag_push calls starts from
MaxBinds == 4       \* tag_push calls in one run

(***************************************************************************)
(* Symbolic coordinates (cutlass/cnc/symbolic_tag.py).  A SymCoord is      *)
(* None, a SymInt or a tuple of SymCoords.  Every value is a record with a *)
(* kind field k, so that values of different Python types can be compared. *)
(***************************************************************************)
PyNone == [k |-> "None"]
PyStr(s) == [k |-> "str", s |-> s]
PyInt(n) == [k |-> "int", n |-> n]
PyTuple(items) == [k |-> "tuple", items |-> items]

\* SymInt.__init__: a SymInt is copied, a str makes a symbolic SymInt,
\* anything else a concrete one.
SymInt(value) ==
    IF value.k = "SymInt"
    THEN [k |-> "SymInt", value |-> value.value, is_symbolic |-> value.is_symbolic]
    ELSE [k |-> "SymInt", value |-> value, is_symbolic |-> (value.k = "str")]

RECURSIVE PyEq(_, _)
\* Python's a == b on coordinates.  SymInt.__eq__ compares value and
\* is_symbolic with another SymInt and otherwise compares its value with the
\* other operand (also when Python reflects the comparison); tuples compare
\* by length and item by item.
PyEq(a, b) ==
    IF a.k = "SymInt" /\ b.k = "SymInt"
    THEN PyEq(a.value, b.value) /\ a.is_symbolic = b.is_symbolic
    ELSE IF a.k = "SymInt" THEN PyEq(a.value, b)
    ELSE IF b.k = "SymInt" THEN PyEq(b.value, a)
    ELSE IF a.k = "tuple" /\ b.k = "tuple"
    THEN /\ Len(a.items) = Len(b.items)
         /\ \A i \in 1..Len(a.items) : PyEq(a.items[i], b.items[i])
    ELSE IF a.k = "str" /\ b.k = "str" THEN a.s = b.s
    ELSE IF a.k = "int" /\ b.k = "int" THEN a.n = b.n
    ELSE a.k = "None" /\ b.k = "None"

RECURSIVE tag_push_items_unflagged(_, _, _, _, _)
\* The for loop of tag_push without the replaced flag: every None is filled.
tag_push_items_unflagged(items, tgt, i, replaced, result) ==
    IF i > Len(items) THEN result
    ELSE tag_push_items_unflagged(items, tgt, i + 1, replaced,
             Append(result, IF items[i].k = "None" THEN tgt ELSE items[i]))

RECURSIVE tag_push(_, _), tag_push_items(_, _, _, _, _)
\* The for loop of tag_push over the items of a tuple: i is the position of
\* the item being looked at, replaced the flag, result the list built so far.
tag_push_items(items, tgt, i, replaced, result) ==
    IF i > Len(items) THEN result
    ELSE LET item == items[i] IN
         IF ~replaced /\ item.k = "None"
         THEN tag_push_items(items, tgt, i + 1, TRUE, Append(result, tgt))
         ELSE IF ~replaced /\ item.k = "tuple"
         THEN LET new_item == tag_push(item, tgt) IN
              tag_push_items(items, tgt, i + 1, ~PyEq(new_item, item),
                             Append(result, new_item))
         ELSE tag_push_items(items, tgt, i + 1, replaced, Append(result, item))

\* tag_push that binds the target over a SymInt as well.
tag_push_rebinding(t, tgt) ==
    IF t.k = "None" \/ t.k = "SymInt" THEN tgt
    ELSE IF t.k = "tuple" THEN PyTuple(tag_push_items(t.items, tgt, 1, FALSE, <<>>))
    ELSE t

tag_push(t, tgt) ==
    IF t.k = "None" THEN tgt
    ELSE IF t.k = "SymInt" THEN t
    ELSE IF t.k = "tuple" THEN PyTuple(tag_push_items(t.items, tgt, 1, FALSE, <<>>))
    ELSE t

\* Bounded input sets.
SeqsUpTo(S, n) == UNION { [1..m -> S] : m \in 0..n }
CoordLeaves == { PyNone, SymInt(PyStr("i")), PyInt(0) }
Coord1 == { PyTuple(s) : s \in SeqsUpTo(CoordLeaves, MaxWidth) }
Coord2 == { PyTuple(s) : s \in SeqsUpTo(CoordLeaves \cup Coord1, MaxWidth) }
Coords == CoordLeaves \cup Coord2
Targets == { SymInt(PyStr("j")), SymInt(PyNone), PyNone,
             PyTuple(<<SymInt(PyStr("j")), PyNone>>), PyTuple(<<>>),
             PyTuple(<<SymInt(PyStr("k"))>>) }

PushInit ==
    /\ tag \in Coords
    /\ target \in Targets
    /\ pushed = PyNone
    /\ ppc = "input"
    /\ binds = <<>>

Push ==
    /\ ppc = "input"
    /\ pushed' = tag_push(tag, target)
    /\ ppc' = "done"
    /\ binds' = Append(binds, target)
    /\ UNCHANGED <<tag, target>>
    /\ UNCHANGED <<graphVars, flatVars, ctxVars, stepVars, ovrVars, raceVars, twoVars, symVars, regVars, ovtVars>>

\* A run of tag_push calls, each on the result of the one before, starting
\* from a composite of unbound slots (the way create_grid_loop_node and the
\* loop transformations bind one dimension after the other).
UnboundComposite(n) == PyTuple([i \in 1..n |-> PyNone])

SeqInit ==
    /\ tag \in { UnboundComposite(n) : n \in 1..MaxSlots }
    /\ target = PyNone
    /\ pushed = tag
    /\ ppc = "seq"
    /\ binds = <<>>

Bind(v) ==
    /\ ppc = "seq"
    /\ Len(binds) < MaxBinds
    /\ target' = v
    /\ pushed' = tag_push(pushed, v)
    /\ binds' = Append(binds, v)
    /\ UNCHANGED <<tag, ppc>>
    /\ UNCHANGED <<graphVars, flatVars, ctxVars, stepVars, ovrVars, raceVars, twoVars, symVars, regVars, ovtVars>>


(***************************************************************************)
(* The graph builder (cutlass/cnc_dsl/graph).  Objects live in two heaps,  *)
(* addressed by handle (their position): nodes holds LoopState and         *)
(* StepState objects, kernels holds KernelBuilder objects.  An object that *)
(* no registry and no other object refers to is not kept.                  *)
(***************************************************************************)
NoId == -1          \* Python's None in an id field
NoRef == 0          \* Python's None in an object reference (handles start at 1)
NoSym == -1         \* a node without an induction symbol (a step)

Names == {"K", "L"}                 \* kernel names
Origins == {"defA", "defB"}         \* step definitions (Step objects)
StepTags == {"tag0", "tag1"}        \* tags a step is called with

\* A loop constructor that hands every loop the first symbol.
NewLoop_first_symbol(kind, sym) ==
    [kind |-> kind, id |-> NoId, parent |-> NoRef, inner_nodes |-> <<>>,
     target |-> 0, origin |-> "", tag |-> "None"]

\* KernelLoopState.create_from_loop_selector / GridLoopState.create_from_launch_config:
\* a loop with the induction symbol tile<sym>, no id, no parent, no children.
NewLoop(kind, sym) ==
    [kind |-> kind, id |-> NoId, parent |-> NoRef, inner_nodes |-> <<>>,
     target |-> sym, origin |-> "", tag |-> "None"]

\* lift_step building every StepState with the same tag.
NewStep_one_tag(origin, t) ==
    [kind |-> "StepState", id |-> NoId, parent |-> NoRef, inner_nodes |-> <<>>,
     target |-> NoSym, origin |-> origin, tag |-> "tag0"]

\* The StepState that Step.lift_step builds.
NewStep(origin, t) ==
    [kind |-> "StepState", id |-> NoId, parent |-> NoRef, inner_nodes |-> <<>>,
     target |-> NoSym, origin |-> origin, tag |-> t]

\* KernelBuilder.create_from_kernel_launch.
NewKernel(name, grid) ==
    [id |-> NoId, name |-> name, grid_loop |-> grid, current_loop |-> grid,
     in_kernel_scope |-> TRUE]

\* current_kernel that keeps answering with the kernel registered last.
current_kernel_stale ==
    IF next_kernel_id = 0 THEN NoRef ELSE kernel_registry[next_kernel_id - 1]

\* CnCContext.current_kernel: the builder registered under _current_kernel_id.
current_kernel ==
    IF current_kernel_id = NoId THEN NoRef ELSE kernel_registry[current_kernel_id]

\* register_node drawing the id from the kernels' counter instead of the
\* nodes' own.
register_node_from_kernel_counter(ns, h) == [ns EXCEPT ![h].id = next_kernel_id]

\* CnCContext.register_node on a node whose id is not yet set: the node gets
\* the next id.  (The registry and the counter are updated by the caller's
\* conjuncts node_registry' and next_node_id'.)
register_node(ns, h) == [ns EXCEPT ![h].id = next_node_id]

\* add_step / add_loop that forgets to point the child back at the loop.
add_inner_unlinked(ns, loop, child) ==
    [ns EXCEPT ![loop].inner_nodes = Append(@, child)]

\* LoopState.add_step / LoopState.add_loop: append to the loop's children and
\* point the child back at the loop.
add_inner(ns, loop, child) ==
    [ns EXCEPT ![loop].inner_nodes = Append(@, child), ![child].parent = loop]

\* What is recorded of a call: the method, the builder it was called on (NoRef
\* for a method of the context) and "ok" or the exception it raised.
Ok(op) == [op |-> op, on |-> NoRef, err |-> "ok"]
Raised(op, err) == [op |-> op, on |-> NoRef, err |-> err]
On(kb, outcome) == [outcome EXCEPT !.on = kb]

\* register_kernel without its first check.
AlreadyInKernel_unchecked == FALSE

\* register_node without its first check.
AlreadyRegistered_unchecked(ns, h) == FALSE

\* CnCContext.register_node's first check: the node's id is already set.
AlreadyRegistered(ns, h) == ns[h].id # NoId

\* CnCContext.register_kernel's first check: a kernel is already current.
AlreadyInKernel == current_kernel # NoRef

\* exit_loop without its checks: the scope always moves to the parent.
exit_loop_unchecked(kb) ==
    LET cur == kernels[kb].current_loop IN
    [err |-> "ok", current_loop |-> IF cur = NoRef THEN cur ELSE nodes[cur].parent]

\* KernelBuilder.exit_loop on builder kb: the exception it raises (or "ok")
\* and the builder's _current_loop afterwards.
exit_loop(kb) ==
    LET cur == kernels[kb].current_loop IN
    IF cur = kernels[kb].grid_loop
    THEN [err |-> "DSLRuntimeError: Can't exit the grid loop", current_loop |-> cur]
    ELSE IF cur = NoRef
    THEN [err |-> "AttributeError: 'NoneType' object has no attribute 'parent'",
          current_loop |-> cur]
    ELSE IF nodes[cur].parent = NoRef
    THEN [err |-> "DSLRuntimeError: Current loop has no parent", current_loop |-> cur]
    ELSE [err |-> "ok", current_loop |-> nodes[cur].parent]

(***************************************************************************)
(* The scenario of the spec's section 8: open_kernel("K"); open_loop();    *)
(* record_step(defA, tag); close_loop(); close_kernel().  script counts    *)
(* how many calls of the run so far follow it exactly, Off once one did    *)
(* not.                                                                    *)
(***************************************************************************)
ScenarioScript ==
    <<"register_kernel K", "register_loop", "register_step defA",
      "exit_loop", "exit_kernel">>
Off == Len(ScenarioScript) + 1
Follow(call) ==
    IF script # Off /\ script < Len(ScenarioScript) /\ ScenarioScript[script + 1] = call
    THEN script + 1 ELSE Off

GraphInit ==
    /\ nodes = <<>>
    /\ kernels = <<>>
    /\ node_registry = <<>>
    /\ kernel_registry = <<>>
    /\ next_node_id = 0
    /\ next_kernel_id = 0
    /\ current_kernel_id = NoId
    /\ tile_count = 0
    /\ last = Ok("init")
    /\ script = 0

\* cncDSL.kernel_launcher's prologue: KernelBuilder.create_from_kernel_launch
\* (which creates the grid loop and draws its symbol), then
\* CnCContext.register_kernel.
LaunchKernel(name) ==
    /\ UNCHANGED <<pushVars, flatVars, ctxVars, stepVars, ovrVars, raceVars, twoVars, symVars, regVars, ovtVars>>
    /\ tile_count < MaxNodes
    /\ Len(nodes) < MaxNodes
    /\ Len(kernels) < MaxKernels
    /\ tile_count' = tile_count + 1
    /\ script' = Follow("register_kernel " \o name)
    /\ IF AlreadyInKernel
       THEN /\ last' = Raised("register_kernel", "ValueError: Already in a kernel")
            /\ UNCHANGED <<nodes, kernels, node_registry, kernel_registry,
                           next_node_id, next_kernel_id, current_kernel_id>>
       ELSE LET g == Len(nodes) + 1
                kb == Len(kernels) + 1
                created == Append(nodes, NewLoop("GridLoopState", tile_count))
            IN /\ kernels' = Append(kernels,
                       [NewKernel(name, g) EXCEPT !.id = next_kernel_id])
               /\ next_kernel_id' = next_kernel_id + 1
               /\ kernel_registry' = (next_kernel_id :> kb) @@ kernel_registry
               \* register_loop(grid_loop): current_kernel is still None here,
               \* so the grid loop is registered and attached to nothing.
               /\ nodes' = register_node(created, g)
               /\ node_registry' = (next_node_id :> g) @@ node_registry
               /\ next_node_id' = next_node_id + 1
               /\ current_kernel_id' = next_kernel_id
               /\ last' = Ok("register_kernel")

\* CnCContext.exit_kernel, the call kernel_launcher makes after the body.
CtxExitKernel ==
    /\ UNCHANGED <<pushVars, flatVars, ctxVars, stepVars, ovrVars, raceVars, twoVars, symVars, regVars, ovtVars>>
    /\ script' = Follow("exit_kernel")
    /\ UNCHANGED <<nodes, kernels, node_registry, kernel_registry,
                   next_node_id, next_kernel_id, tile_count>>
    /\ IF current_kernel_id = NoId
       THEN /\ last' = Raised("exit_kernel", "ValueError: Not in a kernel")
            /\ UNCHANGED current_kernel_id
       ELSE /\ current_kernel_id' = NoId
            /\ last' = Ok("exit_kernel")

\* cnc_dsl.ast_helpers.loop_selector's prologue:
\* KernelLoopState.create_from_loop_selector, then CnCContext.register_loop.
OpenLoop ==
    /\ UNCHANGED <<pushVars, flatVars, ctxVars, stepVars, ovrVars, raceVars, twoVars, symVars, regVars, ovtVars>>
    /\ tile_count < MaxNodes
    /\ Len(nodes) < MaxNodes
    /\ LET h == Len(nodes) + 1
           registered ==
               register_node(Append(nodes, NewLoop("KernelLoopState", tile_count)), h)
           kb == current_kernel
       IN /\ tile_count' = tile_count + 1
          /\ node_registry' = (next_node_id :> h) @@ node_registry
          /\ next_node_id' = next_node_id + 1
          /\ script' = Follow("register_loop")
          /\ UNCHANGED <<kernel_registry, next_kernel_id, current_kernel_id>>
          /\ IF kb = NoRef
             THEN /\ nodes' = registered
                  /\ UNCHANGED kernels
                  /\ last' = Ok("register_loop")
             ELSE IF ~kernels[kb].in_kernel_scope
             THEN /\ nodes' = registered
                  /\ UNCHANGED kernels
                  /\ last' = Raised("register_loop",
                         "DSLRuntimeError: Can't add loop outside of kernel scope")
             ELSE /\ nodes' = add_inner(registered, kernels[kb].current_loop, h)
                  /\ kernels' = [kernels EXCEPT ![kb].current_loop = h]
                  /\ last' = Ok("register_loop")

\* Step.lift_step: build the StepState, then CnCContext.register_step.
RecordStep(origin, t) ==
    /\ UNCHANGED <<pushVars, flatVars, ctxVars, stepVars, ovrVars, raceVars, twoVars, symVars, regVars, ovtVars>>
    /\ Len(nodes) < MaxNodes
    /\ LET h == Len(nodes) + 1
           registered == register_node(Append(nodes, NewStep(origin, t)), h)
           kb == current_kernel
       IN /\ node_registry' = (next_node_id :> h) @@ node_registry
          /\ next_node_id' = next_node_id + 1
          /\ script' = Follow("register_step " \o origin)
          /\ UNCHANGED <<kernels, kernel_registry, next_kernel_id,
                         current_kernel_id, tile_count>>
          /\ IF kb = NoRef
             THEN /\ nodes' = registered
                  /\ last' = Ok("register_step")
             ELSE IF ~kernels[kb].in_kernel_scope
             THEN /\ nodes' = registered
                  /\ last' = Raised("register_step",
                         "DSLRuntimeError: Can't add step outside of kernel scope")
             ELSE /\ nodes' = add_inner(registered, kernels[kb].current_loop, h)
                  /\ last' = Ok("register_step")

\* CnCContext.register_node (reached directly or through register_step /
\* register_loop) on the node object h, which has been registered before.
\* Past the first check the node would get the next id and the registry a
\* second entry for it.
RegisterAgain(h) ==
    /\ UNCHANGED <<pushVars, flatVars, ctxVars, stepVars, ovrVars, raceVars, twoVars, symVars, regVars, ovtVars>>
    /\ h \in DOMAIN nodes
    /\ script' = Off
    /\ UNCHANGED <<kernels, kernel_registry, next_kernel_id, current_kernel_id,
                   tile_count>>
    /\ IF AlreadyRegistered(nodes, h)
       THEN /\ last' = Raised("register_node",
                   "RuntimeError: Node id is already set. Duplicated node registration.")
            /\ UNCHANGED <<nodes, node_registry, next_node_id>>
       ELSE /\ nodes' = register_node(nodes, h)
            /\ next_node_id' = next_node_id + 1
            /\ next_node_id < MaxNodes + MaxKernels
            /\ last' = Raised("register_node",
                   "ValueError: Node already registered in node registry")
            /\ UNCHANGED node_registry

\* The end of a traced loop: what the decorator of loop_selector does once the
\* loop body has returned (ast_helpers.py line 48).  current_kernel is a
\* property, so `current_kernel()` calls the builder it returns, or None.
LoopSelectorEnd ==
    /\ UNCHANGED <<pushVars, flatVars, ctxVars, stepVars, ovrVars, raceVars, twoVars, symVars, regVars, ovtVars>>
    /\ \E h \in DOMAIN nodes : nodes[h].kind = "KernelLoopState"
    /\ script' = Off
    /\ UNCHANGED <<nodes, kernels, node_registry, kernel_registry, next_node_id,
                   next_kernel_id, current_kernel_id, tile_count>>
    /\ last' = IF current_kernel = NoRef
               THEN Raised("loop_selector", "TypeError: 'NoneType' object is not callable")
               ELSE Raised("loop_selector",
                        "TypeError: 'KernelBuilder' object is not callable")

\* KernelBuilder.exit_loop called on the builder kb.
ExitLoop(kb) ==
    /\ UNCHANGED <<pushVars, flatVars, ctxVars, stepVars, ovrVars, raceVars, twoVars, symVars, regVars, ovtVars>>
    /\ kb \in DOMAIN kernels
    /\ script' = IF kb = current_kernel THEN Follow("exit_loop") ELSE Off
    /\ UNCHANGED <<nodes, node_registry, kernel_registry, next_node_id,
                   next_kernel_id, current_kernel_id, tile_count>>
    /\ kernels' = [kernels EXCEPT ![kb].current_loop = exit_loop(kb).current_loop]
    /\ last' = On(kb, Raised("exit_loop", exit_loop(kb).err))

\* KernelBuilder.exit_kernel on the builder kb.
BuilderExitKernel(kb) ==
    /\ UNCHANGED <<pushVars, flatVars, ctxVars, stepVars, ovrVars, raceVars, twoVars, symVars, regVars, ovtVars>>
    /\ kb \in DOMAIN kernels
    /\ script' = Off
    /\ UNCHANGED <<nodes, node_registry, kernel_registry, next_node_id,
                   next_kernel_id, current_kernel_id, tile_count>>
    /\ IF ~kernels[kb].in_kernel_scope
       THEN /\ last' = On(kb, Raised("builder_exit_kernel",
                   "DSLRuntimeError: Can't exit kernel -- not in kernel scope"))
            /\ UNCHANGED kernels
       ELSE IF kernels[kb].current_loop # kernels[kb].grid_loop
       THEN /\ last' = On(kb, Raised("builder_exit_kernel",
                   "DSLRuntimeError: Cannot exit kernel -- not in the grid loop"))
            /\ UNCHANGED kernels
       ELSE /\ kernels' = [kernels EXCEPT ![kb].in_kernel_scope = FALSE,
                                          ![kb].current_loop = NoRef]
            /\ last' = On(kb, Ok("builder_exit_kernel"))

(***************************************************************************)
(* dump (LoopState.dump, StepState.dump, KernelBuilder.dump).  A line of   *)
(* text is modelled by the number of tabs it starts with and the fields    *)
(* its text is formatted from.                                             *)
(***************************************************************************)
NodeLine(h) ==
    [tabs |-> 0,
     kind |-> IF nodes[h].kind = "StepState" THEN "<Step>"
              ELSE IF nodes[h].kind = "GridLoopState" THEN "<GridLoop>"
              ELSE "<KernelLoop>",
     id |-> nodes[h].id, name |-> nodes[h].origin,
     target |-> nodes[h].target, tag |-> nodes[h].tag]

\* The lines of a child's dump taken over without the tab.
Indent_dropped(lines) == lines

\* f"\t{dump}" applied to every line of a child's dump.
Indent(lines) == [i \in DOMAIN lines |-> [lines[i] EXCEPT !.tabs = @ + 1]]

RECURSIVE LoopDump(_), InnerDumps(_, _)
\* The concatenation of the dumps of children i.. of a loop.
InnerDumps(children, i) ==
    IF i > Len(children) THEN <<>>
    ELSE LET c == children[i] IN
         (IF nodes[c].kind = "StepState" THEN <<NodeLine(c)>> ELSE LoopDump(c))
         \o InnerDumps(children, i + 1)

LoopDump(h) == <<NodeLine(h)>> \o Indent(InnerDumps(nodes[h].inner_nodes, 1))

\* KernelBuilder.dump: repr(self), then every line of the grid loop's dump,
\* joined by newlines.
KernelLine(kb) ==
    [tabs |-> 0, kind |-> "[[[Kernel]]]", id |-> kernels[kb].id,
     name |-> kernels[kb].name, target |-> NoSym, tag |-> "None"]
\* dump that lists the grid loop's children right below the kernel line,
\* without the grid loop's own line.
KernelDump_without_grid(kb) ==
    <<KernelLine(kb)>> \o InnerDumps(nodes[kernels[kb].grid_loop].inner_nodes, 1)

\* KernelBuilder.dump (continued): the lines of the whole dump.
KernelDump(kb) == <<KernelLine(kb)>> \o LoopDump(kernels[kb].grid_loop)

Next ==
    \/ \E name \in Names : LaunchKernel(name)
    \/ CtxExitKernel
    \/ OpenLoop
    \/ \E o \in Origins, t \in StepTags : RecordStep(o, t)
    \/ LoopSelectorEnd
    \/ \E kb \in 1..MaxKernels : ExitLoop(kb)
    \/ \E kb \in 1..MaxKernels : BuilderExitKernel(kb)
    \/ \E h \in 1..MaxNodes : RegisterAgain(h)

(***************************************************************************)
(* The diagram flattener (cutlass/cnc/ast.py, AstGraphVisitor).  The tree  *)
(* handed to it is kept in pre-order: node 1 is the root, par[n] is the    *)
(* node whose body holds n (NoParent for the root) and opt[n] gives the    *)
(* wrapped ast class of n ("For", "Module", or "Other" for any class       *)
(* without a visit_ method of its own), its _visualize flag and whether it *)
(* has a target.  Children that are not AstExtension objects are skipped   *)
(* by every visit method and are left out of the trees.  Diagram ids are   *)
(* the visitor's counter values; NoNode stands for None.                   *)
(***************************************************************************)
MaxTreeNodes == 5   \* nodes of the tree handed to the flattener
NoParent == 0       \* par of the root
NoNode == -1        \* Python's None as a diagram id
NoLabel == 0        \* Python's None as an edge label

\* The node options <<class, _visualize, has a target>>: a For (its target
\* is its induction variable), a Module or another statement, drawn or not,
\* with or without a target attribute.  (_visualize has no effect on a
\* statement of another class: generic_visit draws nothing.)
NodeOptions ==
    { <<"For", TRUE, TRUE>>, <<"For", FALSE, TRUE>>,
      <<"Module", TRUE, TRUE>>, <<"Module", FALSE, TRUE>>,
      <<"Module", TRUE, FALSE>>, <<"Module", FALSE, FALSE>>,
      <<"Other", FALSE, TRUE>>, <<"Other", FALSE, FALSE>> }

RECURSIVE AncestorsOrSelf(_, _)
AncestorsOrSelf(par, n) ==
    IF n = NoParent THEN {} ELSE {n} \cup AncestorsOrSelf(par, par[n])

\* par lists a tree in pre-order: each node after the root hangs below the
\* node before it or below one of that node's ancestors.
IsPreOrder(par) ==
    /\ par[1] = NoParent
    /\ \A n \in DOMAIN par : n > 1 => par[n] \in AncestorsOrSelf(par, n - 1)

ParentLists(n) == { par \in [1..n -> 0..(n - 1)] : IsPreOrder(par) }

RECURSIVE Ascending(_)
\* The members of a set of numbers as an ascending list.
Ascending(S) ==
    IF S = {} THEN <<>>
    ELSE LET m == CHOOSE x \in S : \A y \in S : x <= y IN <<m>> \o Ascending(S \ {m})

\* The fields of node n of the tree: node.body (the AstExtension statements
\* in it, in order), the class, _visualize, and the text of its target.
\* The text of a node's target is the node's number, so that no two nodes
\* share one; NoLabel for a node without a target.
Body(n) == Ascending({ c \in DOMAIN tree.par : tree.par[c] = n })
ClassName(n) == tree.opt[n][1]
target_text(n) == IF tree.opt[n][3] THEN n ELSE NoLabel

\* AstGraphVisitor.should_visualize.
should_visualize(n) == tree.opt[n][2]

\* A get_target_label that finds no target on any node.
get_target_label_none(n) == NoLabel

\* AstGraphVisitor.get_target_label.
get_target_label(n) == target_text(n)

\* AstGraphVisitor.__init__: an empty diagram.
NewVisitor == [counter |-> 0, visible_ids |-> <<>>, dot_nodes |-> <<>>, dot_edges |-> <<>>]

\* The part visit_Module and visit_For share: draw the node if it is to be
\* drawn, with an edge from parent_id when there is one.  Gives the visitor
\* and my_id.
DrawNode(n, parent_id, edge_label, v) ==
    IF should_visualize(n)
    THEN [v |-> [counter |-> v.counter + 1,
                 visible_ids |-> Append(v.visible_ids, v.counter),
                 dot_nodes |-> Append(v.dot_nodes, [id |-> v.counter, node |-> n]),
                 dot_edges |-> IF parent_id # NoNode
                               THEN Append(v.dot_edges,
                                        [src |-> parent_id, dst |-> v.counter,
                                         label |-> edge_label, constraint |-> TRUE])
                               ELSE v.dot_edges],
          my_id |-> v.counter]
    ELSE [v |-> v, my_id |-> NoNode]

\* visit_For: the label owner after statement stmt returned a node id: the
\* statement, unless it is a For.
NextLabelOwner(stmt, label_owner) == IF ClassName(stmt) # "For" THEN stmt ELSE label_owner

RECURSIVE visit(_, _, _, _), ModuleBody(_, _, _, _, _), ForBody(_, _, _, _, _, _),
          GenericBody(_, _, _, _)

\* The loop of visit_Module over node.body from statement i on.
ModuleBody(stmts, i, prev_id, last_child_id, v) ==
    IF i > Len(stmts) THEN [v |-> v, last |-> last_child_id]
    ELSE LET r == visit(stmts[i], prev_id, NoLabel, v) IN
         IF r.last_id # NoNode
         THEN ModuleBody(stmts, i + 1, r.last_id, r.last_id, r.v)
         ELSE ModuleBody(stmts, i + 1, prev_id, last_child_id, r.v)

\* A visit_For loop that hangs every statement of the body on the loop
\* itself instead of on the node the statement before it returned.
ForBody_unchained(stmts, i, prev_id, last_body_id, label_owner, v) ==
    IF i > Len(stmts) THEN [v |-> v, last |-> last_body_id]
    ELSE LET r == visit(stmts[i], prev_id, get_target_label(label_owner), v) IN
         IF r.last_id # NoNode
         THEN ForBody(stmts, i + 1, prev_id, r.last_id,
                      NextLabelOwner(stmts[i], label_owner), r.v)
         ELSE ForBody(stmts, i + 1, prev_id, last_body_id, label_owner, r.v)

\* The loop of visit_For over node.body from statement i on.
ForBody(stmts, i, prev_id, last_body_id, label_owner, v) ==
    IF i > Len(stmts) THEN [v |-> v, last |-> last_body_id]
    ELSE LET r == visit(stmts[i], prev_id, get_target_label(label_owner), v) IN
         IF r.last_id # NoNode
         THEN ForBody(stmts, i + 1, r.last_id, r.last_id,
                      NextLabelOwner(stmts[i], label_owner), r.v)
         ELSE ForBody(stmts, i + 1, prev_id, last_body_id, label_owner, r.v)

\* The loop of generic_visit over the node's children from child i on.
GenericBody(stmts, i, current_parent, v) ==
    IF i > Len(stmts) THEN v
    ELSE GenericBody(stmts, i + 1, current_parent,
                     visit(stmts[i], current_parent, NoLabel, v).v)

\* visit_node_with_context(node, parent_id, edge_label): dispatch on the
\* node's class to visit_Module, visit_For or generic_visit; gives the
\* visitor afterwards and the last_id the visit method left.
visit(n, parent_id, edge_label, v) ==
    IF ClassName(n) = "Module"
    THEN LET d == DrawNode(n, parent_id, edge_label, v)
             current_parent == IF d.my_id # NoNode THEN d.my_id ELSE parent_id
             b == ModuleBody(Body(n), 1, current_parent, NoNode, d.v)
         IN [v |-> b.v,
             last_id |-> IF b.last # NoNode THEN b.last
                         ELSE IF should_visualize(n) THEN d.my_id ELSE parent_id]
    ELSE IF ClassName(n) = "For"
    THEN LET d == DrawNode(n, parent_id, edge_label, v)
             current_parent == IF d.my_id # NoNode THEN d.my_id ELSE parent_id
             b == ForBody(Body(n), 1, current_parent, NoNode, n, d.v)
             back == IF should_visualize(n) /\ b.last # NoNode
                        /\ d.my_id # NoNode /\ b.last # d.my_id
                     THEN [b.v EXCEPT !.dot_edges =
                              Append(@, [src |-> b.last, dst |-> d.my_id,
                                         label |-> NoLabel, constraint |-> FALSE])]
                     ELSE b.v
         IN [v |-> back,
             last_id |-> IF b.last # NoNode THEN b.last
                         ELSE IF should_visualize(n) THEN d.my_id ELSE parent_id]
    ELSE [v |-> GenericBody(Body(n), 1, parent_id, v), last_id |-> parent_id]

\* _ast_to_graph(node) on the root: a fresh visitor, no parent, no label.
ast_to_graph ==
    LET r == visit(1, NoNode, NoLabel, NewVisitor) IN
    [dot_nodes |-> r.v.dot_nodes, dot_edges |-> r.v.dot_edges,
     last_id |-> r.last_id, visible_ids |-> r.v.visible_ids]

\* AstExtension.visualize up to the rendering: the rank="same" subgraphs it
\* adds to the diagram g, one listing every visible id when there is any.
visualize(g) == IF g.visible_ids # <<>> THEN <<g.visible_ids>> ELSE <<>>

FlatInit ==
    /\ \E n \in 1..MaxTreeNodes : \E par \in ParentLists(n) :
          \E opt \in [1..n -> NodeOptions] : tree = [par |-> par, opt |-> opt]
    /\ graph = PyNone
    /\ fpc = "input"

Flatten ==
    /\ fpc = "input"
    /\ graph' = ast_to_graph
    /\ fpc' = "done"
    /\ UNCHANGED tree
    /\ UNCHANGED <<pushVars, graphVars, ctxVars, stepVars, ovrVars, raceVars, twoVars, symVars, regVars, ovtVars>>

(***************************************************************************)
(* The context stack: CnCContext.__enter__, __exit__ and current().  The   *)
(* calls that consult current(), Step.__call__ and the kernel wrapper, are *)
(* modelled with the state of the several context objects further down.    *)
(***************************************************************************)
MaxContexts == 2    \* CnCContext objects
MaxDepth == 3       \* enters not yet matched by an exit

NoCtx == 0          \* CnCContext._current is None
Unset == -1         \* the object has no _prev_context attribute yet
Contexts == 1..MaxContexts

CtxInit ==
    /\ ctx_current = NoCtx
    /\ prev_context = [c \in Contexts |-> Unset]
    /\ active = <<>>
    /\ nested = TRUE

\* CnCContext.current()
current == ctx_current

\* What __exit__ of c leaves in CnCContext._current:
\* getattr(self, "_prev_context", None).
exit_restores_none(c) == NoCtx
exit_restores(c) == IF prev_context[c] = Unset THEN NoCtx ELSE prev_context[c]

\* `lifter_ctx is not None` fails in Step.__call__.
NoActiveContext_ignored == FALSE
NoActiveContext == current = NoCtx

\* The last position of c in a sequence of contexts, 0 when it is absent.
LastIndexOf(s, c) ==
    IF \E i \in DOMAIN s : s[i] = c
    THEN CHOOSE i \in DOMAIN s : s[i] = c /\ \A j \in DOMAIN s : s[j] = c => j <= i
    ELSE 0
WithoutIndex(s, i) == [j \in 1..(Len(s) - 1) |-> IF j < i THEN s[j] ELSE s[j + 1]]

\* CnCContext.__enter__ on the object c.
Enter(c) ==
    /\ UNCHANGED <<pushVars, flatVars, stepVars, ovrVars, raceVars, twoVars, symVars, regVars, ovtVars>>
    /\ Len(active) < MaxDepth
    /\ prev_context' = [prev_context EXCEPT ![c] = ctx_current]
    /\ ctx_current' = c
    /\ active' = Append(active, c)
    /\ nested' = (nested /\ \A i \in DOMAIN active : active[i] # c)
    /\ last' = Ok("__enter__")
    /\ UNCHANGED <<nodes, kernels, node_registry, kernel_registry, next_node_id,
                   next_kernel_id, current_kernel_id, tile_count, script>>

\* CnCContext.__exit__ on the object c.
Exit(c) ==
    /\ UNCHANGED <<pushVars, flatVars, stepVars, ovrVars, raceVars, twoVars, symVars, regVars, ovtVars>>
    /\ ctx_current' = exit_restores(c)
    /\ UNCHANGED prev_context
    /\ IF LastIndexOf(active, c) = 0
       THEN /\ active' = active
            /\ nested' = FALSE
       ELSE /\ active' = WithoutIndex(active, LastIndexOf(active, c))
            /\ nested' = (nested /\ LastIndexOf(active, c) = Len(active))
    /\ last' = Ok("__exit__")
    /\ UNCHANGED <<nodes, kernels, node_registry, kernel_registry, next_node_id,
                   next_kernel_id, current_kernel_id, tile_count, script>>

(***************************************************************************)
(* Step definitions: the cnc.step decorator, Step.__init__ and             *)
(* Step._retrive_tag_from_args.                                            *)
(***************************************************************************)
MaxArgs == 2        \* positional arguments of a call

ParamNames == {"x", "y"}            \* parameters a step function may declare
ParamLists == { <<"x">>, <<"x", "y">>, <<"y", "x">> }
\* What cnc.step may be given as tag: a parameter name, a literal
\* coordinate, or nothing.
DeclTags ==
    { PyStr("x"), PyStr("y"), PyStr("z"), PyNone, PyInt(0), PyInt(1),
      SymInt(PyStr("i")), PyTuple(<<>>), PyTuple(<<PyInt(0)>>) }
ArgValues == { PyInt(0), PyInt(7), SymInt(PyStr("j")) }
ArgLists == SeqsUpTo(ArgValues, MaxArgs)
KwArgs == UNION { [ks -> ArgValues] : ks \in SUBSET ParamNames }

\* Python's truth value of an object.
PyTruthy(v) ==
    CASE v.k = "None" -> FALSE
      [] v.k = "int" -> v.n # 0
      [] v.k = "str" -> v.s # ""
      [] v.k = "tuple" -> v.items # <<>>
      [] OTHER -> TRUE

StepOk(v) == [err |-> "ok", tag |-> v]
StepRaised(err) == [err |-> err, tag |-> PyNone]

\* Step.__init__: a str tag names a parameter, anything else is the tag.
Step_init(tg, params) ==
    IF tg.k = "str"
    THEN [tag_name |-> tg, static_tag |-> PyNone, params |-> params]
    ELSE [tag_name |-> PyNone, static_tag |-> tg, params |-> params]

\* param_list.index(name)
IndexOf(params, name) == CHOOSE i \in DOMAIN params : params[i] = name

\* `if self._static_tag:`
UsesStaticTag(st) == PyTruthy(st.static_tag)

\* Step._retrive_tag_from_args
retrive_tag_from_args(st, args, kwargs) ==
    LET name == IF st.tag_name.k = "str" THEN st.tag_name.s ELSE "None"
        is_name == st.tag_name.k = "str"
    IN IF UsesStaticTag(st) THEN StepOk(st.static_tag)
       ELSE IF is_name /\ name \in DOMAIN kwargs THEN StepOk(kwargs[name])
       ELSE IF is_name /\ \E i \in DOMAIN st.params : st.params[i] = name
       THEN IF IndexOf(st.params, name) <= Len(args)
            THEN StepOk(args[IndexOf(st.params, name)])
            ELSE StepRaised("IndexError: tuple index out of range")
       ELSE StepRaised("ValueError: Tag " \o name \o " is not a parameter of f")

StepIdle ==
    decl = PyNone /\ step_def = PyNone /\ step_call = PyNone /\ resolved = PyNone
    /\ spc = "idle"

StepInit ==
    /\ decl \in { [tag |-> tg, params |-> ps] : tg \in DeclTags, ps \in ParamLists }
    /\ step_def = PyNone
    /\ step_call = PyNone
    /\ resolved = PyNone
    /\ spc = "decl"

\* @cnc.step(tag=...) applied to a function: step() and step_decorator.
Define ==
    /\ UNCHANGED <<pushVars, graphVars, flatVars, ctxVars, ovrVars, raceVars, twoVars, symVars, regVars, ovtVars>>
    /\ spc = "decl"
    /\ UNCHANGED <<decl, step_call>>
    /\ IF decl.tag.k = "None"
       THEN /\ spc' = "rejected"
            /\ resolved' = StepRaised("ValueError: tag must be provided for cnc.step. ")
            /\ UNCHANGED step_def
       ELSE /\ spc' = "defined"
            /\ step_def' = Step_init(decl.tag, decl.params)
            /\ UNCHANGED resolved

\* The tag resolution of one call of the step, the first thing lift_step does.
Call(args, kwargs) ==
    /\ UNCHANGED <<pushVars, graphVars, flatVars, ctxVars, ovrVars, raceVars, twoVars, symVars, regVars, ovtVars>>
    /\ spc \in {"defined", "called"}
    /\ step_call' = [args |-> args, kwargs |-> kwargs]
    /\ resolved' = retrive_tag_from_args(step_def, args, kwargs)
    /\ spc' = "called"
    /\ UNCHANGED <<decl, step_def>>

(***************************************************************************)
(* The override context of cnc_dsl/register.py: CnCOverrideContext patches *)
(* the registered extension methods and function overrides into their      *)
(* targets on __enter__ and takes them out on __exit__.  An attribute of a *)
(* target is what getattr gives for it, Absent when hasattr is False.      *)
(***************************************************************************)
MaxOvrDepth == 3    \* with-blocks open at the same time, over all threads
MaxOvrOps == 4      \* __enter__ and __exit__ calls in one run

Absent == "<absent>"                \* hasattr(target, name) is False
NoneValue == "None"                 \* the attribute is there and is None
NoOvr == "None"                     \* _active_context has no current, or None
OvrContexts == {"A", "B"}           \* CnCOverrideContext objects
Threads == {"t1", "t2"}

\* backup_name = f"_{target_cls.__name__}_{name}"
backup_name(cls, name) == "_" \o cls \o "_" \o name

\* The registry of dev/test_cnc_register.py: one extension of Base with
\* bar and foo, one override of target_func.
TestRegistry ==
    [extensions |-> << [target_cls |-> "Base",
                        methods |-> << <<"bar", "BaseExtension.bar">>,
                                       <<"foo", "BaseExtension.foo">> >>] >>,
     function_overrides |-> << [new_func |-> "target_func_override",
                                target |-> "test_module",
                                attr_name |-> "target_func"] >>]
\* A second extension class of Base with a method foo, and a second
\* override of target_func.
SecondExtension ==
    [target_cls |-> "Base", methods |-> << <<"foo", "SecondExtension.foo">> >>]
SecondOverride ==
    [new_func |-> "second_override", target |-> "test_module",
     attr_name |-> "target_func"]
\* The registry of the test with both registered after the first ones.
StackedRegistry ==
    [extensions |-> TestRegistry.extensions \o <<SecondExtension>>,
     function_overrides |-> TestRegistry.function_overrides \o <<SecondOverride>>]
Registries == {TestRegistry, StackedRegistry}

ClassSlots == { <<"Base", "foo">>, <<"Base", "bar">> }
BackupSlots == { <<s[1], backup_name(s[1], s[2])>> : s \in ClassSlots }
FunctionSlots == { <<"test_module", "target_func">> }
Slots == ClassSlots \cup BackupSlots \cup FunctionSlots

\* The targets before any context is entered: a class attribute is missing,
\* None or a method; the overridden function is missing or a function.
PreAttrs ==
    { a \in [Slots -> {Absent, NoneValue, "original"}] :
        /\ \A s \in BackupSlots : a[s] = Absent
        /\ \A s \in FunctionSlots : a[s] # NoneValue }

hasattr(a, slot) == a[slot] # Absent

\* __enter__, lines 82-95: the methods of one extension, from the i-th on.
\* st is [attrs, mods]: the attributes and self.modifications so far.
RECURSIVE apply_methods(_, _, _, _)
apply_methods(cls, methods, i, st) ==
    IF i > Len(methods) THEN st
    ELSE LET name == methods[i][1]
             attr == methods[i][2]
             slot == <<cls, name>>
             backup == <<cls, backup_name(cls, name)>>
         IN IF hasattr(st.attrs, slot)
            THEN apply_methods(cls, methods, i + 1,
                     [attrs |-> [st.attrs EXCEPT ![backup] = st.attrs[slot],
                                                 ![slot] = attr],
                      mods |-> Append(st.mods,
                                  [slot |-> slot, original |-> st.attrs[slot]])])
            ELSE apply_methods(cls, methods, i + 1,
                     [attrs |-> [st.attrs EXCEPT ![slot] = attr],
                      mods |-> Append(st.mods,
                                  [slot |-> slot, original |-> NoneValue])])

\* __enter__, lines 78-95: every registered extension, from the i-th on.
RECURSIVE apply_extensions(_, _, _)
apply_extensions(exts, i, st) ==
    IF i > Len(exts) THEN st
    ELSE apply_extensions(exts, i + 1,
             apply_methods(exts[i].target_cls, exts[i].methods, 1, st))

\* __enter__, lines 98-112: every registered function override, from the
\* i-th on.  st is [attrs, mods] with self.function_modifications as mods.
RECURSIVE apply_overrides(_, _, _)
apply_overrides(ovs, i, st) ==
    IF i > Len(ovs) THEN st
    ELSE LET slot == <<ovs[i].target, ovs[i].attr_name>>
             original_func == IF hasattr(st.attrs, slot) THEN st.attrs[slot]
                              ELSE NoneValue
         IN apply_overrides(ovs, i + 1,
                [attrs |-> [st.attrs EXCEPT ![slot] = ovs[i].new_func],
                 mods |-> Append(st.mods,
                             [slot |-> slot, original |-> original_func])])

\* __exit__, lines 122-129: function_modifications in reverse, from the
\* i-th down.
RECURSIVE restore_functions(_, _, _)
restore_functions(fmods, i, a) ==
    IF i = 0 THEN a
    ELSE restore_functions(fmods, i - 1,
             IF fmods[i].original # NoneValue
             THEN [a EXCEPT ![fmods[i].slot] = fmods[i].original]
             ELSE [a EXCEPT ![fmods[i].slot] = Absent])

\* __exit__, lines 134-145: modifications in reverse, from the i-th down.
RECURSIVE restore_methods(_, _, _)
restore_methods(mods, i, a) ==
    IF i = 0 THEN a
    ELSE LET slot == mods[i].slot
             backup == <<slot[1], backup_name(slot[1], slot[2])>>
         IN restore_methods(mods, i - 1,
                IF mods[i].original # NoneValue
                THEN [a EXCEPT ![slot] = mods[i].original, ![backup] = Absent]
                ELSE [a EXCEPT ![slot] = Absent])

OvrIdle ==
    /\ registry = <<>> /\ attrs = <<>> /\ pre_attrs = <<>> /\ ovr_current = <<>>
    /\ ovr_stack = <<>> /\ modifications = <<>> /\ function_modifications = <<>>
    /\ ovr_trace = <<>>

OvrInit ==
    /\ registry \in Registries
    /\ attrs \in PreAttrs
    /\ pre_attrs = attrs
    /\ ovr_current = [t \in Threads |-> NoOvr]
    /\ ovr_stack = [t \in Threads |-> <<>>]
    /\ modifications = [c \in OvrContexts |-> <<>>]
    /\ function_modifications = [c \in OvrContexts |-> <<>>]
    /\ ovr_trace = <<>>

\* CnCOverrideContext.current() on the thread t.
override_current(t) == ovr_current[t]

\* The thread that traces, and the targets of dev/test_cnc_register.py as
\* they are before any override context is entered: Base.foo is a method,
\* Base.bar is missing, target_func is a function.
TraceThread == "t1"
TestAttrs ==
    [s \in Slots |-> IF s \in {<<"Base", "foo">>, <<"test_module", "target_func">>}
                     THEN "original" ELSE Absent]

\* The override state a trace runs in: the registry and targets of the test,
\* either with no override context entered, or inside `with A:` on the
\* tracing thread (what __enter__ of A leaves).
OvrTracing ==
    /\ registry = TestRegistry
    /\ pre_attrs = TestAttrs
    /\ \E inside \in BOOLEAN :
          LET ext == apply_extensions(registry.extensions, 1,
                         [attrs |-> TestAttrs, mods |-> <<>>])
              fo == apply_overrides(registry.function_overrides, 1,
                         [attrs |-> ext.attrs, mods |-> <<>>])
          IN IF inside
             THEN /\ attrs = fo.attrs
                  /\ ovr_current = [t \in Threads |-> IF t = TraceThread THEN "A" ELSE NoOvr]
                  /\ ovr_stack = [t \in Threads |-> IF t = TraceThread THEN <<"A">> ELSE <<>>]
                  /\ modifications = [c \in OvrContexts |-> IF c = "A" THEN ext.mods ELSE <<>>]
                  /\ function_modifications =
                        [c \in OvrContexts |-> IF c = "A" THEN fo.mods ELSE <<>>]
                  /\ ovr_trace = <<[op |-> "enter", ctx |-> "A", thread |-> TraceThread]>>
             ELSE /\ attrs = TestAttrs
                  /\ ovr_current = [t \in Threads |-> NoOvr]
                  /\ ovr_stack = [t \in Threads |-> <<>>]
                  /\ modifications = [c \in OvrContexts |-> <<>>]
                  /\ function_modifications = [c \in OvrContexts |-> <<>>]
                  /\ ovr_trace = <<>>

OpenBlocks == LET RECURSIVE total(_)
                  total(ts) == IF ts = {} THEN 0
                               ELSE LET t == CHOOSE x \in ts : TRUE
                                    IN Len(ovr_stack[t]) + total(ts \ {t})
              IN total(Threads)

\* CnCOverrideContext.__enter__ of the object c, called by the thread t
\* when it enters `with c:`, run from its first line to its return with no
\* other thread inside __enter__ or __exit__.
OvrEnter(c, t) ==
    /\ UNCHANGED <<pushVars, graphVars, flatVars, ctxVars, stepVars, raceVars, twoVars, symVars, regVars, ovtVars>>
    /\ Len(ovr_trace) < MaxOvrOps
    /\ OpenBlocks < MaxOvrDepth
    /\ ovr_current' = [ovr_current EXCEPT ![t] = c]
    /\ LET ext == apply_extensions(registry.extensions, 1,
                      [attrs |-> attrs, mods |-> modifications[c]])
           fo == apply_overrides(registry.function_overrides, 1,
                      [attrs |-> ext.attrs, mods |-> function_modifications[c]])
       IN /\ attrs' = fo.attrs
          /\ modifications' = [modifications EXCEPT ![c] = ext.mods]
          /\ function_modifications' = [function_modifications EXCEPT ![c] = fo.mods]
    /\ ovr_stack' = [ovr_stack EXCEPT ![t] = Append(@, c)]
    /\ ovr_trace' = Append(ovr_trace, [op |-> "enter", ctx |-> c, thread |-> t])
    /\ UNCHANGED <<registry, pre_attrs>>

\* CnCOverrideContext.__exit__ of the object c, called by the thread t when
\* it leaves its innermost with-block, which is `with c:`, run from its
\* first line to its return with no other thread inside __enter__ or
\* __exit__.
OvrExit(c, t) ==
    /\ UNCHANGED <<pushVars, graphVars, flatVars, ctxVars, stepVars, raceVars, twoVars, symVars, regVars, ovtVars>>
    /\ Len(ovr_trace) < MaxOvrOps
    /\ ovr_stack[t] # <<>>
    /\ ovr_stack[t][Len(ovr_stack[t])] = c
    /\ ovr_current' = [ovr_current EXCEPT ![t] = NoOvr]
    /\ attrs' = restore_methods(modifications[c], Len(modifications[c]),
                    restore_functions(function_modifications[c],
                        Len(function_modifications[c]), attrs))
    /\ function_modifications' = [function_modifications EXCEPT ![c] = <<>>]
    /\ modifications' = [modifications EXCEPT ![c] = <<>>]
    /\ ovr_stack' = [ovr_stack EXCEPT ![t] = SubSeq(@, 1, Len(@) - 1)]
    /\ ovr_trace' = Append(ovr_trace, [op |-> "exit", ctx |-> c, thread |-> t])
    /\ UNCHANGED <<registry, pre_attrs>>

\* @register_cls_extension(Base) on the class SecondExtension, when its
\* definition runs: the extension is appended to the global registry and
\* nothing is patched.
register_cls_extension ==
    /\ UNCHANGED <<pushVars, graphVars, flatVars, ctxVars, stepVars, raceVars, twoVars, symVars, regVars, ovtVars>>
    /\ \A i \in DOMAIN registry.extensions : registry.extensions[i] # SecondExtension
    /\ registry' = [registry EXCEPT !.extensions = Append(@, SecondExtension)]
    /\ UNCHANGED <<attrs, pre_attrs, ovr_current, ovr_stack, modifications,
                   function_modifications, ovr_trace>>

\* @register_function_override(target_func) on second_override, when its
\* definition runs.
register_function_override ==
    /\ UNCHANGED <<pushVars, graphVars, flatVars, ctxVars, stepVars, raceVars, twoVars, symVars, regVars, ovtVars>>
    /\ \A i \in DOMAIN registry.function_overrides :
          registry.function_overrides[i] # SecondOverride
    /\ registry' = [registry EXCEPT !.function_overrides = Append(@, SecondOverride)]
    /\ UNCHANGED <<attrs, pre_attrs, ovr_current, ovr_stack, modifications,
                   function_modifications, ovr_trace>>

(***************************************************************************)
(* Two threads, each running `with c: pass` on a CnCOverrideContext of its *)
(* own.  __enter__ and __exit__ take no lock: the threads interleave       *)
(* between the statements that read or write the attributes of the shared  *)
(* targets.  A step is one such statement together with the loop headers   *)
(* and local assignments that follow it.  The list a context keeps is only *)
(* touched by the thread that holds the context.  o_pc says where a thread *)
(* is; ovr_stack and ovr_trace are not used here.                          *)
(***************************************************************************)
ThreadContext == [t \in Threads |-> IF t = "t1" THEN "A" ELSE "B"]

NoLoc == [i |-> 0, j |-> 0, orig |-> NoneValue, err |-> "ok"]
At(pc, i, j) == [pc |-> pc, loc |-> [i |-> i, j |-> j, orig |-> NoneValue, err |-> "ok"]]

\* Where __enter__ goes on from the override k of the registry (lines 98 and
\* 114): the next override, or the return into the with-block.
EnterFromOverride(reg, k) ==
    IF k <= Len(reg.function_overrides) THEN At("hasattr_func", k, 0)
    ELSE At("inside", 0, 0)

\* Where __enter__ goes on from the method j of the extension i (lines 78
\* and 82): the next method there is, then the overrides.
RECURSIVE EnterFromMethod(_, _, _)
EnterFromMethod(reg, i, j) ==
    IF i > Len(reg.extensions) THEN EnterFromOverride(reg, 1)
    ELSE IF j > Len(reg.extensions[i].methods) THEN EnterFromMethod(reg, i + 1, 1)
    ELSE At("hasattr_method", i, j)

\* Where __exit__ goes on from the k-th entry of modifications, counting
\* down (lines 134-135 and 147).
ExitFromMethod(mods, k) ==
    IF k = 0 THEN At("clear_mods", 0, 0)
    ELSE IF mods[k].original # NoneValue THEN At("restore_method", k, 0)
    ELSE At("hasattr_added", k, 0)

\* Where __exit__ goes on from the k-th entry of function_modifications,
\* counting down (lines 122-123 and 131).
ExitFromFunc(fmods, k) ==
    IF k = 0 THEN At("clear_fmods", 0, 0)
    ELSE IF fmods[k].original # NoneValue THEN At("restore_func", k, 0)
    ELSE At("hasattr_removed_func", k, 0)

\* The class attribute and the backup attribute the thread t is at in
\* __enter__, and the module attribute it is at.
MethodSlot(t) ==
    <<registry.extensions[o_loc[t].i].target_cls,
      registry.extensions[o_loc[t].i].methods[o_loc[t].j][1]>>
MethodBackup(t) == <<MethodSlot(t)[1], backup_name(MethodSlot(t)[1], MethodSlot(t)[2])>>
FuncSlot(t) ==
    <<registry.function_overrides[o_loc[t].i].target,
      registry.function_overrides[o_loc[t].i].attr_name>>
\* The entry of its lists the thread t is at in __exit__.
ModEntry(t) == modifications[ThreadContext[t]][o_loc[t].i]
FuncModEntry(t) == function_modifications[ThreadContext[t]][o_loc[t].i]

OvtIdle == o_pc = <<>> /\ o_loc = <<>>

OvtInit ==
    /\ o_pc = [t \in Threads |-> "idle"]
    /\ o_loc = [t \in Threads |-> NoLoc]

\* The thread t moves to the position p.
Goto(t, p) ==
    /\ o_pc' = [o_pc EXCEPT ![t] = p.pc]
    /\ o_loc' = [o_loc EXCEPT ![t] = p.loc]
\* The thread t moves to the pc and keeps its locals, with orig set.
GotoWith(t, pc, orig) ==
    /\ o_pc' = [o_pc EXCEPT ![t] = pc]
    /\ o_loc' = [o_loc EXCEPT ![t].orig = orig]
\* The call the thread t is in raises.
OvtRaise(t, err) ==
    /\ o_pc' = [o_pc EXCEPT ![t] = "raised"]
    /\ o_loc' = [o_loc EXCEPT ![t].err = err]

\* __enter__ line 75: _active_context.current = self
OvtSetCurrent(t) ==
    /\ UNCHANGED <<pushVars, graphVars, flatVars, ctxVars, stepVars, raceVars, twoVars, symVars, regVars>>
    /\ o_pc[t] = "idle"
    /\ ovr_current' = [ovr_current EXCEPT ![t] = ThreadContext[t]]
    /\ Goto(t, EnterFromMethod(registry, 1, 1))
    /\ UNCHANGED <<registry, attrs, pre_attrs, ovr_stack, modifications,
                   function_modifications, ovr_trace>>

\* __enter__ line 84: if hasattr(target_cls, name)
OvtHasattrMethod(t) ==
    /\ UNCHANGED <<pushVars, graphVars, flatVars, ctxVars, stepVars, raceVars, twoVars, symVars, regVars>>
    /\ o_pc[t] = "hasattr_method"
    /\ IF hasattr(attrs, MethodSlot(t))
       THEN GotoWith(t, "getattr_method", NoneValue)
       ELSE GotoWith(t, "append_mod", NoneValue)
    /\ UNCHANGED ovrVars

\* __enter__ line 85: original_attr = getattr(target_cls, name)
OvtGetattrMethod(t) ==
    /\ UNCHANGED <<pushVars, graphVars, flatVars, ctxVars, stepVars, raceVars, twoVars, symVars, regVars>>
    /\ o_pc[t] = "getattr_method"
    /\ IF hasattr(attrs, MethodSlot(t))
       THEN GotoWith(t, "set_backup", attrs[MethodSlot(t)])
       ELSE OvtRaise(t, "AttributeError")
    /\ UNCHANGED ovrVars

\* __enter__ lines 87-88: setattr(target_cls, backup_name, original_attr)
OvtSetBackup(t) ==
    /\ UNCHANGED <<pushVars, graphVars, flatVars, ctxVars, stepVars, raceVars, twoVars, symVars, regVars>>
    /\ o_pc[t] = "set_backup"
    /\ attrs' = [attrs EXCEPT ![MethodBackup(t)] = o_loc[t].orig]
    /\ GotoWith(t, "append_mod", o_loc[t].orig)
    /\ UNCHANGED <<registry, pre_attrs, ovr_current, ovr_stack, modifications,
                   function_modifications, ovr_trace>>

\* __enter__ line 89 or 92: self.modifications.append(...)
OvtAppendMod(t) ==
    /\ UNCHANGED <<pushVars, graphVars, flatVars, ctxVars, stepVars, raceVars, twoVars, symVars, regVars>>
    /\ o_pc[t] = "append_mod"
    /\ modifications' = [modifications EXCEPT ![ThreadContext[t]] =
           Append(@, [slot |-> MethodSlot(t), original |-> o_loc[t].orig])]
    /\ GotoWith(t, "set_method", o_loc[t].orig)
    /\ UNCHANGED <<registry, attrs, pre_attrs, ovr_current, ovr_stack,
                   function_modifications, ovr_trace>>

\* __enter__ line 95: setattr(target_cls, name, attr)
OvtSetMethod(t) ==
    /\ UNCHANGED <<pushVars, graphVars, flatVars, ctxVars, stepVars, raceVars, twoVars, symVars, regVars>>
    /\ o_pc[t] = "set_method"
    /\ attrs' = [attrs EXCEPT ![MethodSlot(t)] =
           registry.extensions[o_loc[t].i].methods[o_loc[t].j][2]]
    /\ Goto(t, EnterFromMethod(registry, o_loc[t].i, o_loc[t].j + 1))
    /\ UNCHANGED <<registry, pre_attrs, ovr_current, ovr_stack, modifications,
                   function_modifications, ovr_trace>>

\* __enter__ lines 104-107: if hasattr(target, attr_name) ... else
\* original_func = None
OvtHasattrFunc(t) ==
    /\ UNCHANGED <<pushVars, graphVars, flatVars, ctxVars, stepVars, raceVars, twoVars, symVars, regVars>>
    /\ o_pc[t] = "hasattr_func"
    /\ IF hasattr(attrs, FuncSlot(t))
       THEN GotoWith(t, "getattr_func", NoneValue)
       ELSE GotoWith(t, "append_fmod", NoneValue)
    /\ UNCHANGED ovrVars

\* __enter__ line 105: original_func = getattr(target, attr_name)
OvtGetattrFunc(t) ==
    /\ UNCHANGED <<pushVars, graphVars, flatVars, ctxVars, stepVars, raceVars, twoVars, symVars, regVars>>
    /\ o_pc[t] = "getattr_func"
    /\ IF hasattr(attrs, FuncSlot(t))
       THEN GotoWith(t, "append_fmod", attrs[FuncSlot(t)])
       ELSE OvtRaise(t, "AttributeError")
    /\ UNCHANGED ovrVars

\* __enter__ line 109: self.function_modifications.append(...)
OvtAppendFuncMod(t) ==
    /\ UNCHANGED <<pushVars, graphVars, flatVars, ctxVars, stepVars, raceVars, twoVars, symVars, regVars>>
    /\ o_pc[t] = "append_fmod"
    /\ function_modifications' = [function_modifications EXCEPT ![ThreadContext[t]] =
           Append(@, [slot |-> FuncSlot(t), original |-> o_loc[t].orig])]
    /\ GotoWith(t, "set_func", o_loc[t].orig)
    /\ UNCHANGED <<registry, attrs, pre_attrs, ovr_current, ovr_stack,
                   modifications, ovr_trace>>

\* __enter__ lines 112-114: setattr(target, attr_name, new_func), and the
\* return into the with-block after the last override.
OvtSetFunc(t) ==
    /\ UNCHANGED <<pushVars, graphVars, flatVars, ctxVars, stepVars, raceVars, twoVars, symVars, regVars>>
    /\ o_pc[t] = "set_func"
    /\ attrs' = [attrs EXCEPT ![FuncSlot(t)] =
           registry.function_overrides[o_loc[t].i].new_func]
    /\ Goto(t, EnterFromOverride(registry, o_loc[t].i + 1))
    /\ UNCHANGED <<registry, pre_attrs, ovr_current, ovr_stack, modifications,
                   function_modifications, ovr_trace>>

\* __exit__ line 119: _active_context.current = None
OvtClearCurrent(t) ==
    /\ UNCHANGED <<pushVars, graphVars, flatVars, ctxVars, stepVars, raceVars, twoVars, symVars, regVars>>
    /\ o_pc[t] = "inside"
    /\ ovr_current' = [ovr_current EXCEPT ![t] = NoOvr]
    /\ Goto(t, ExitFromFunc(function_modifications[ThreadContext[t]],
                            Len(function_modifications[ThreadContext[t]])))
    /\ UNCHANGED <<registry, attrs, pre_attrs, ovr_stack, modifications,
                   function_modifications, ovr_trace>>

\* __exit__ line 125: setattr(target, attr_name, original_func)
OvtRestoreFunc(t) ==
    /\ UNCHANGED <<pushVars, graphVars, flatVars, ctxVars, stepVars, raceVars, twoVars, symVars, regVars>>
    /\ o_pc[t] = "restore_func"
    /\ attrs' = [attrs EXCEPT ![FuncModEntry(t).slot] = FuncModEntry(t).original]
    /\ Goto(t, ExitFromFunc(function_modifications[ThreadContext[t]], o_loc[t].i - 1))
    /\ UNCHANGED <<registry, pre_attrs, ovr_current, ovr_stack, modifications,
                   function_modifications, ovr_trace>>

\* __exit__ line 128: if hasattr(target, attr_name)
OvtHasattrRemovedFunc(t) ==
    /\ UNCHANGED <<pushVars, graphVars, flatVars, ctxVars, stepVars, raceVars, twoVars, symVars, regVars>>
    /\ o_pc[t] = "hasattr_removed_func"
    /\ IF hasattr(attrs, FuncModEntry(t).slot)
       THEN GotoWith(t, "del_func", NoneValue)
       ELSE Goto(t, ExitFromFunc(function_modifications[ThreadContext[t]], o_loc[t].i - 1))
    /\ UNCHANGED ovrVars

\* __exit__ line 129: delattr(target, attr_name)
OvtDelFunc(t) ==
    /\ UNCHANGED <<pushVars, graphVars, flatVars, ctxVars, stepVars, raceVars, twoVars, symVars, regVars>>
    /\ o_pc[t] = "del_func"
    /\ IF hasattr(attrs, FuncModEntry(t).slot)
       THEN /\ attrs' = [attrs EXCEPT ![FuncModEntry(t).slot] = Absent]
            /\ Goto(t, ExitFromFunc(function_modifications[ThreadContext[t]],
                                    o_loc[t].i - 1))
       ELSE /\ OvtRaise(t, "AttributeError")
            /\ UNCHANGED attrs
    /\ UNCHANGED <<registry, pre_attrs, ovr_current, ovr_stack, modifications,
                   function_modifications, ovr_trace>>

\* __exit__ line 131: self.function_modifications.clear()
OvtClearFuncMods(t) ==
    /\ UNCHANGED <<pushVars, graphVars, flatVars, ctxVars, stepVars, raceVars, twoVars, symVars, regVars>>
    /\ o_pc[t] = "clear_fmods"
    /\ function_modifications' = [function_modifications EXCEPT ![ThreadContext[t]] = <<>>]
    /\ Goto(t, ExitFromMethod(modifications[ThreadContext[t]],
                              Len(modifications[ThreadContext[t]])))
    /\ UNCHANGED <<registry, attrs, pre_attrs, ovr_current, ovr_stack,
                   modifications, ovr_trace>>

\* __exit__ line 137: setattr(target_cls, name, original_attr)
OvtRestoreMethod(t) ==
    /\ UNCHANGED <<pushVars, graphVars, flatVars, ctxVars, stepVars, raceVars, twoVars, symVars, regVars>>
    /\ o_pc[t] = "restore_method"
    /\ attrs' = [attrs EXCEPT ![ModEntry(t).slot] = ModEntry(t).original]
    /\ GotoWith(t, "hasattr_backup", NoneValue)
    /\ UNCHANGED <<registry, pre_attrs, ovr_current, ovr_stack, modifications,
                   function_modifications, ovr_trace>>

\* __exit__ lines 139-140: if hasattr(target_cls, backup_name)
OvtHasattrBackup(t) ==
    /\ UNCHANGED <<pushVars, graphVars, flatVars, ctxVars, stepVars, raceVars, twoVars, symVars, regVars>>
    /\ o_pc[t] = "hasattr_backup"
    /\ IF hasattr(attrs, <<ModEntry(t).slot[1],
                           backup_name(ModEntry(t).slot[1], ModEntry(t).slot[2])>>)
       THEN GotoWith(t, "del_backup", NoneValue)
       ELSE Goto(t, ExitFromMethod(modifications[ThreadContext[t]], o_loc[t].i - 1))
    /\ UNCHANGED ovrVars

\* __exit__ line 141: delattr(target_cls, backup_name)
OvtDelBackup(t) ==
    /\ UNCHANGED <<pushVars, graphVars, flatVars, ctxVars, stepVars, raceVars, twoVars, symVars, regVars>>
    /\ o_pc[t] = "del_backup"
    /\ LET backup == <<ModEntry(t).slot[1],
                       backup_name(ModEntry(t).slot[1], ModEntry(t).slot[2])>> IN
       IF hasattr(attrs, backup)
       THEN /\ attrs' = [attrs EXCEPT ![backup] = Absent]
            /\ Goto(t, ExitFromMethod(modifications[ThreadContext[t]], o_loc[t].i - 1))
       ELSE /\ OvtRaise(t, "AttributeError")
            /\ UNCHANGED attrs
    /\ UNCHANGED <<registry, pre_attrs, ovr_current, ovr_stack, modifications,
                   function_modifications, ovr_trace>>

\* __exit__ line 144: if hasattr(target_cls, name)
OvtHasattrAdded(t) ==
    /\ UNCHANGED <<pushVars, graphVars, flatVars, ctxVars, stepVars, raceVars, twoVars, symVars, regVars>>
    /\ o_pc[t] = "hasattr_added"
    /\ IF hasattr(attrs, ModEntry(t).slot)
       THEN GotoWith(t, "del_added", NoneValue)
       ELSE Goto(t, ExitFromMethod(modifications[ThreadContext[t]], o_loc[t].i - 1))
    /\ UNCHANGED ovrVars

\* __exit__ line 145: delattr(target_cls, name)
OvtDelAdded(t) ==
    /\ UNCHANGED <<pushVars, graphVars, flatVars, ctxVars, stepVars, raceVars, twoVars, symVars, regVars>>
    /\ o_pc[t] = "del_added"
    /\ IF hasattr(attrs, ModEntry(t).slot)
       THEN /\ attrs' = [attrs EXCEPT ![ModEntry(t).slot] = Absent]
            /\ Goto(t, ExitFromMethod(modifications[ThreadContext[t]], o_loc[t].i - 1))
       ELSE /\ OvtRaise(t, "AttributeError")
            /\ UNCHANGED attrs
    /\ UNCHANGED <<registry, pre_attrs, ovr_current, ovr_stack, modifications,
                   function_modifications, ovr_trace>>

\* __exit__ lines 147-148: self.modifications.clear(); return False
OvtClearMods(t) ==
    /\ UNCHANGED <<pushVars, graphVars, flatVars, ctxVars, stepVars, raceVars, twoVars, symVars, regVars>>
    /\ o_pc[t] = "clear_mods"
    /\ modifications' = [modifications EXCEPT ![ThreadContext[t]] = <<>>]
    /\ Goto(t, At("done", 0, 0))
    /\ UNCHANGED <<registry, attrs, pre_attrs, ovr_current, ovr_stack,
                   function_modifications, ovr_trace>>

(***************************************************************************)
(* Two threads tracing against one CnCContext: each registers its own      *)
(* nodes with CnCContext.register_node, one after the other.  The method   *)
(* takes no lock, so the threads interleave between its statements and     *)
(* inside `self._next_node_id += 1`, which loads and stores separately.    *)
(***************************************************************************)
MaxRaceNodes == 2   \* nodes each thread registers

RaceThreads == {"t1", "t2"}
RaceNodes == RaceThreads \X (1..MaxRaceNodes)
\* The node the thread t is registering.
Registering(t) == <<t, r_done[t] + 1>>

RaceIdle ==
    /\ r_pc = <<>> /\ r_done = <<>> /\ r_node_id = <<>> /\ r_next = 0
    /\ r_tmp = <<>> /\ r_seen = <<>> /\ r_registry = <<>> /\ r_err = <<>>

RaceInit ==
    /\ r_pc = [t \in RaceThreads |-> "check"]
    /\ r_done = [t \in RaceThreads |-> 0]
    /\ r_node_id = [n \in RaceNodes |-> NoId]
    /\ r_next = 0
    /\ r_tmp = [t \in RaceThreads |-> 0]
    /\ r_seen = [t \in RaceThreads |-> 0]
    /\ r_registry = <<>>
    /\ r_err = [t \in RaceThreads |-> <<>>]

\* The thread t is done with the node it was registering, with the
\* exception err or normally ("ok"), and turns to its next node if any.
RaceFinish(t, err) ==
    /\ r_done' = [r_done EXCEPT ![t] = @ + 1]
    /\ r_err' = [r_err EXCEPT ![t] = Append(@, err)]
    /\ r_pc' = [r_pc EXCEPT ![t] = IF r_done[t] + 1 < MaxRaceNodes
                                   THEN "check" ELSE "idle"]

\* line 92: if node.id is not None: raise RuntimeError
RaceCheck(t) ==
    /\ UNCHANGED <<pushVars, graphVars, flatVars, ctxVars, stepVars, ovrVars, twoVars, symVars, regVars, ovtVars>>
    /\ r_pc[t] = "check"
    /\ UNCHANGED <<r_node_id, r_next, r_tmp, r_seen, r_registry>>
    /\ IF r_node_id[Registering(t)] # NoId
       THEN RaceFinish(t, "RuntimeError: Node id is already set")
       ELSE /\ r_pc' = [r_pc EXCEPT ![t] = "assign"]
            /\ UNCHANGED <<r_done, r_err>>

\* line 96: node.id = self._next_node_id
RaceAssign(t) ==
    /\ UNCHANGED <<pushVars, graphVars, flatVars, ctxVars, stepVars, ovrVars, twoVars, symVars, regVars, ovtVars>>
    /\ r_pc[t] = "assign"
    /\ r_node_id' = [r_node_id EXCEPT ![Registering(t)] = r_next]
    /\ r_pc' = [r_pc EXCEPT ![t] = "load"]
    /\ UNCHANGED <<r_done, r_next, r_tmp, r_seen, r_registry, r_err>>

\* line 97, first half: load self._next_node_id
RaceLoad(t) ==
    /\ UNCHANGED <<pushVars, graphVars, flatVars, ctxVars, stepVars, ovrVars, twoVars, symVars, regVars, ovtVars>>
    /\ r_pc[t] = "load"
    /\ r_tmp' = [r_tmp EXCEPT ![t] = r_next]
    /\ r_pc' = [r_pc EXCEPT ![t] = "store"]
    /\ UNCHANGED <<r_done, r_node_id, r_next, r_seen, r_registry, r_err>>

\* line 97, second half: store the loaded value plus one
RaceStore(t) ==
    /\ UNCHANGED <<pushVars, graphVars, flatVars, ctxVars, stepVars, ovrVars, twoVars, symVars, regVars, ovtVars>>
    /\ r_pc[t] = "store"
    /\ r_next' = r_tmp[t] + 1
    /\ r_pc' = [r_pc EXCEPT ![t] = "iter"]
    /\ UNCHANGED <<r_done, r_node_id, r_tmp, r_seen, r_registry, r_err>>

\* line 100: the iterator over self.node_registry.values() is created
RaceIter(t) ==
    /\ UNCHANGED <<pushVars, graphVars, flatVars, ctxVars, stepVars, ovrVars, twoVars, symVars, regVars, ovtVars>>
    /\ r_pc[t] = "iter"
    /\ r_seen' = [r_seen EXCEPT ![t] = Cardinality(DOMAIN r_registry)]
    /\ r_pc' = [r_pc EXCEPT ![t] = "scan"]
    /\ UNCHANGED <<r_done, r_node_id, r_next, r_tmp, r_registry, r_err>>

\* lines 100-104: the loop runs; the dict iterator raises when the dict has
\* changed size since it was created, the loop body when it meets the node.
RaceScan(t) ==
    /\ UNCHANGED <<pushVars, graphVars, flatVars, ctxVars, stepVars, ovrVars, twoVars, symVars, regVars, ovtVars>>
    /\ r_pc[t] = "scan"
    /\ UNCHANGED <<r_node_id, r_next, r_tmp, r_seen, r_registry>>
    /\ IF Cardinality(DOMAIN r_registry) # r_seen[t]
       THEN RaceFinish(t, "RuntimeError: dictionary changed size during iteration")
       ELSE IF \E i \in DOMAIN r_registry : r_registry[i] = Registering(t)
       THEN RaceFinish(t, "ValueError: Node already registered in node registry")
       ELSE /\ r_pc' = [r_pc EXCEPT ![t] = "insert"]
            /\ UNCHANGED <<r_done, r_err>>

\* line 105: self.node_registry[node.id] = node
RaceInsert(t) ==
    /\ UNCHANGED <<pushVars, graphVars, flatVars, ctxVars, stepVars, ovrVars, twoVars, symVars, regVars, ovtVars>>
    /\ r_pc[t] = "insert"
    /\ r_registry' = (r_node_id[Registering(t)] :> Registering(t)) @@ r_registry
    /\ RaceFinish(t, "ok")
    /\ UNCHANGED <<r_node_id, r_next, r_tmp, r_seen>>

(***************************************************************************)
(* Several CnCContext objects.  node_registry, kernel_registry and the     *)
(* symbol sources are attributes of the class: one dict and one source     *)
(* shared by every context (nodes, kernels, node_registry, kernel_registry *)
(* and tile_count here).  _next_node_id, _next_kernel_id and               *)
(* _current_kernel_id are read from the class (0, 0, None) until the       *)
(* object writes them, and are the object's own from then on (t_ctx).      *)
(* Tracing goes through CnCContext.current().                              *)
(***************************************************************************)
MaxTwoDepth == 2    \* contexts entered and not yet exited

TwoIdle == t_ctx = <<>> /\ t_owner = <<>> /\ t_pending = 0

TwoInit ==
    /\ t_ctx = [c \in Contexts |-> [next_node_id |-> 0, next_kernel_id |-> 0,
                                   current_kernel_id |-> NoId]]
    /\ t_owner = <<>>
    /\ t_pending = 0

\* `with c:` around a trace.
TraceEnter(c) == Len(active) < MaxTwoDepth /\ Enter(c)

\* c.symtile_source._count of the context object c: the source is an
\* attribute of the class, so every context reads the one counter.
symtile_count_of(c) == tile_count

\* current_kernel of the context object c
current_kernel_of(c) ==
    IF t_ctx[c].current_kernel_id = NoId THEN NoRef
    ELSE kernel_registry[t_ctx[c].current_kernel_id]

\* kernel_wrapper from create_from_kernel_launch up to the kernel body, on
\* the context that is current: the builder and its grid loop are created,
\* then register_kernel; when that returns the wrapper goes into the body.
TraceKernel(name) ==
    /\ UNCHANGED <<pushVars, flatVars, ctxVars, stepVars, ovrVars, raceVars, symVars, regVars, ovtVars>>
    /\ current # NoCtx
    /\ tile_count < MaxNodes
    /\ Len(nodes) < MaxNodes
    /\ Len(kernels) < MaxKernels
    /\ tile_count' = tile_count + 1
    /\ UNCHANGED <<next_node_id, next_kernel_id, current_kernel_id, script>>
    /\ LET c == current
           g == Len(nodes) + 1
           kb == Len(kernels) + 1
           kid == t_ctx[c].next_kernel_id
           nid == t_ctx[c].next_node_id
       IN IF current_kernel_of(c) # NoRef
          THEN /\ last' = Raised("register_kernel", "ValueError: Already in a kernel")
               /\ UNCHANGED <<nodes, kernels, node_registry, kernel_registry, twoVars>>
          ELSE /\ kernels' = Append(kernels, [NewKernel(name, g) EXCEPT !.id = kid])
               /\ kernel_registry' = (kid :> kb) @@ kernel_registry
               /\ nodes' = Append(nodes,
                      [NewLoop("GridLoopState", tile_count) EXCEPT !.id = nid])
               /\ node_registry' = (nid :> g) @@ node_registry
               /\ t_ctx' = [t_ctx EXCEPT ![c] =
                      [next_node_id |-> nid + 1, next_kernel_id |-> kid + 1,
                       current_kernel_id |-> kid]]
               /\ t_owner' = Append(t_owner, c)
               /\ t_pending' = t_pending + 1
               /\ last' = Ok("register_kernel")

\* Step.lift_step(ctx, ...) with the context that is current as ctx, the
\* tag resolving to t: the assertion that an override context is active on
\* the thread, then the StepState and register_step on ctx.  (ctx is None
\* only for a caller that does not look at current(): the call of
\* register_step on None raises.)
TraceStep(origin, t) ==
    /\ UNCHANGED <<pushVars, flatVars, ctxVars, stepVars, ovrVars, raceVars, symVars, regVars, ovtVars>>
    /\ UNCHANGED <<kernels, kernel_registry, tile_count, t_owner, t_pending,
                   next_node_id, next_kernel_id, current_kernel_id, script>>
    /\ IF override_current(TraceThread) = NoOvr
       THEN /\ last' = Raised("register_step", "AssertionError")
            /\ UNCHANGED <<nodes, node_registry, t_ctx>>
       ELSE IF current = NoCtx
       THEN /\ last' = Raised("register_step",
                   "AttributeError: 'NoneType' object has no attribute 'register_step'")
            /\ UNCHANGED <<nodes, node_registry, t_ctx>>
       ELSE LET c == current
                h == Len(nodes) + 1
                nid == t_ctx[c].next_node_id
                registered == Append(nodes, [NewStep(origin, t) EXCEPT !.id = nid])
                kb == current_kernel_of(c)
            IN /\ Len(nodes) < MaxNodes
               /\ node_registry' = (nid :> h) @@ node_registry
               /\ t_ctx' = [t_ctx EXCEPT ![c].next_node_id = nid + 1]
               /\ IF kb = NoRef
                  THEN /\ nodes' = registered
                       /\ last' = Ok("register_step")
                  ELSE IF ~kernels[kb].in_kernel_scope
                  THEN /\ nodes' = registered
                       /\ last' = Raised("register_step",
                              "DSLRuntimeError: Can't add step outside of kernel scope")
                  ELSE /\ nodes' = add_inner(registered, kernels[kb].current_loop, h)
                       /\ last' = Ok("register_step")

\* Step.__call__ of the step definition origin, its tag resolving to t:
\* lift_step under the current context, the jit function when there is none.
CallStep(origin, t) ==
    IF NoActiveContext
    THEN /\ last' = Ok("_jit_wrapper")
         /\ UNCHANGED <<nodes, kernels, node_registry, kernel_registry,
                        next_node_id, next_kernel_id, current_kernel_id,
                        tile_count, script>>
         /\ UNCHANGED <<pushVars, flatVars, ctxVars, stepVars, ovrVars, raceVars, twoVars, symVars, regVars, ovtVars>>
    ELSE TraceStep(origin, t)

\* kernel_wrapper up to the kernel body.  The call needs config=; the grid
\* loop draws its symbol from CnCContext.current(), which fails on None.
KernelWrapper(name, has_config) ==
    IF ~has_config
    THEN /\ last' = Raised("kernel_wrapper", "DSLRuntimeError: config is required")
         /\ UNCHANGED <<nodes, kernels, node_registry, kernel_registry,
                        next_node_id, next_kernel_id, current_kernel_id,
                        tile_count, script>>
         /\ UNCHANGED <<pushVars, flatVars, ctxVars, stepVars, ovrVars, raceVars, twoVars, symVars, regVars, ovtVars>>
    ELSE IF current = NoCtx
    THEN /\ last' = Raised("create_from_launch_config",
                "AttributeError: 'NoneType' object has no attribute 'create_new_tile'")
         /\ UNCHANGED <<nodes, kernels, node_registry, kernel_registry,
                        next_node_id, next_kernel_id, current_kernel_id,
                        tile_count, script>>
         /\ UNCHANGED <<pushVars, flatVars, ctxVars, stepVars, ovrVars, raceVars, twoVars, symVars, regVars, ovtVars>>
    ELSE TraceKernel(name)

\* kernel_wrapper after the kernel body has returned: exit_kernel on the
\* context that is current then (on None when every context was exited
\* inside the body), and the wrapper returns or raises.
TraceExitKernel ==
    /\ UNCHANGED <<pushVars, flatVars, ctxVars, stepVars, ovrVars, raceVars, symVars, regVars, ovtVars>>
    /\ t_pending > 0
    /\ t_pending' = t_pending - 1
    /\ UNCHANGED <<nodes, kernels, node_registry, kernel_registry, tile_count,
                   t_owner, next_node_id, next_kernel_id, current_kernel_id, script>>
    /\ IF current = NoCtx
       THEN /\ last' = Raised("exit_kernel",
                   "AttributeError: 'NoneType' object has no attribute 'exit_kernel'")
            /\ UNCHANGED t_ctx
       ELSE IF t_ctx[current].current_kernel_id = NoId
       THEN /\ last' = Raised("exit_kernel", "ValueError: Not in a kernel")
            /\ UNCHANGED t_ctx
       ELSE /\ t_ctx' = [t_ctx EXCEPT ![current].current_kernel_id = NoId]
            /\ last' = Ok("exit_kernel")

(***************************************************************************)
(* SymInt of cutlass/cnc/symint.py: a frozen dataclass around a SymPy      *)
(* expression.  A SymPy expression is a Symbol, an Integer, or the         *)
(* expression SymPy builds from an operator and its operands (kept as the  *)
(* operator and the operands; SymPy's rewriting of it is not modelled).    *)
(* Two Integers fold to an Integer under +, -, *, %, ** and unary -.       *)
(***************************************************************************)
MaxSymValue == 2    \* largest int used as an operand

Symbol(name) == [k |-> "Symbol", name |-> name]
Integer(n) == [k |-> "Integer", n |-> n]
SymPyExpr(op, args) == [k |-> "Expr", op |-> op, args |-> args]

SymOk(v) == [err |-> "ok", value |-> v]
SymRaised(err) == [err |-> err, value |-> PyNone]

\* isinstance(value, sympy.Expr)
IsSymPyExpr(value) == value.k \in {"Symbol", "Integer", "Expr"}

\* SymInt.__init__(value): the new SymInt, or the TypeError it raises.  A
\* SymInt hands over its expression, a SymPy expression is taken as it is,
\* an int becomes an Integer and a str a Symbol.
SymInt_init(value) ==
    IF value.k = "SymInt" THEN SymOk([k |-> "SymInt", expr |-> value.expr])
    ELSE IF IsSymPyExpr(value) THEN SymOk([k |-> "SymInt", expr |-> value])
    ELSE IF value.k = "int" THEN SymOk([k |-> "SymInt", expr |-> Integer(value.n)])
    ELSE IF value.k = "str" THEN SymOk([k |-> "SymInt", expr |-> Symbol(value.s)])
    ELSE SymRaised("TypeError: Unsupported value for SymInt")

\* SymInt._coerce(other): a SymInt as it is, a SymPy expression or an int
\* wrapped, TypeError for anything else.
coerce(other) ==
    IF other.k = "SymInt" THEN SymOk(other)
    ELSE IF IsSymPyExpr(other) \/ other.k = "int" THEN SymInt_init(other)
    ELSE SymRaised("TypeError: Cannot coerce to SymInt")

RECURSIVE IntPow(_, _)
IntPow(b, e) == IF e = 0 THEN 1 ELSE b * IntPow(b, e - 1)

\* l + r, l - r, l * r, l % r and l ** r of two SymPy expressions; SymPy
\* raises ZeroDivisionError for a modulo by the Integer zero.
sympy_binary(op, l, r) ==
    IF op = "%" /\ r = Integer(0) THEN SymRaised("ZeroDivisionError")
    ELSE IF l.k = "Integer" /\ r.k = "Integer" /\ (op = "**" => r.n >= 0)
    THEN SymOk(Integer(CASE op = "+" -> l.n + r.n
                         [] op = "-" -> l.n - r.n
                         [] op = "*" -> l.n * r.n
                         [] op = "%" -> l.n % r.n
                         [] op = "**" -> IntPow(l.n, r.n)))
    ELSE SymOk(SymPyExpr(op, <<l, r>>))

\* -e of a SymPy expression.
sympy_neg(e) == IF e.k = "Integer" THEN Integer(0 - e.n) ELSE SymPyExpr("neg", <<e>>)

\* The binary operator methods of SymInt and the SymPy operator each uses.
BinaryMethods ==
    { "__add__", "__radd__", "__sub__", "__rsub__", "__mul__", "__rmul__",
      "__floordiv__", "__rfloordiv__", "__mod__", "__rmod__", "__pow__", "__rpow__" }
Reflected(method) == method \in { "__radd__", "__rsub__", "__rmul__", "__rfloordiv__",
                                  "__rmod__", "__rpow__" }
OperatorOf(method) ==
    CASE method \in {"__add__", "__radd__"} -> "+"
      [] method \in {"__sub__", "__rsub__"} -> "-"
      [] method \in {"__mul__", "__rmul__"} -> "*"
      [] method \in {"__floordiv__", "__rfloordiv__"} -> "//"
      [] method \in {"__mod__", "__rmod__"} -> "%"
      [] method \in {"__pow__", "__rpow__"} -> "**"

\* self.<method>(other).  __floordiv__ and __rfloordiv__ look up the global
\* name sp, which the module never binds (it imports sympy), before they
\* touch an operand.
binary_method(method, self, other) ==
    IF OperatorOf(method) = "//" THEN SymRaised("NameError: name 'sp' is not defined")
    ELSE IF coerce(other).err # "ok" THEN coerce(other)
    ELSE LET o == coerce(other).value.expr
             l == IF Reflected(method) THEN o ELSE self.expr
             r == IF Reflected(method) THEN self.expr ELSE o
             e == sympy_binary(OperatorOf(method), l, r)
         IN IF e.err = "ok" THEN SymInt_init(e.value) ELSE e

\* SymInt.__neg__
neg_method(self) == SymInt_init(sympy_neg(self.expr))

SymInts ==
    { SymInt_init(PyStr(n)).value : n \in {"x", "y"} }
       \cup { SymInt_init(PyInt(n)).value : n \in 0..MaxSymValue }
Operands == SymInts \cup { PyInt(n) : n \in 0..MaxSymValue }
\* Values that are neither a SymInt, a SymPy expression nor an int.
OtherValues == { PyStr("x"), PyNone, PyTuple(<<>>) }

SymIdle ==
    sym_a = PyNone /\ sym_b = PyNone /\ sym_op = "" /\ sym_res = PyNone /\ sym_pc = "idle"

SymInit ==
    /\ sym_a \in SymInts
    /\ sym_b \in Operands \cup OtherValues
    /\ sym_op = "" /\ sym_res = PyNone /\ sym_pc = "input"

\* One call of a binary operator method on sym_a with sym_b.
BinaryOp(method) ==
    /\ UNCHANGED <<pushVars, graphVars, flatVars, ctxVars, stepVars, ovrVars, raceVars, twoVars, regVars, ovtVars>>
    /\ sym_pc = "input"
    /\ sym_op' = method
    /\ sym_res' = binary_method(method, sym_a, sym_b)
    /\ sym_pc' = "done"
    /\ UNCHANGED <<sym_a, sym_b>>

\* One call of SymInt(sym_b).
Construct ==
    /\ UNCHANGED <<pushVars, graphVars, flatVars, ctxVars, stepVars, ovrVars, raceVars, twoVars, regVars, ovtVars>>
    /\ sym_pc = "input"
    /\ sym_op' = "__init__"
    /\ sym_res' = SymInt_init(sym_b)
    /\ sym_pc' = "done"
    /\ UNCHANGED <<sym_a, sym_b>>

\* One call of -sym_a.
Neg ==
    /\ UNCHANGED <<pushVars, graphVars, flatVars, ctxVars, stepVars, ovrVars, raceVars, twoVars, regVars, ovtVars>>
    /\ sym_pc = "input"
    /\ sym_op' = "__neg__"
    /\ sym_res' = neg_method(sym_a)
    /\ sym_pc' = "done"
    /\ UNCHANGED <<sym_a, sym_b>>

(***************************************************************************)
(* The step registry of a trace Context (cutlass/cnc_dsl/trace.py) and the *)
(* id of a Step (cutlass/cnc_dsl/steps.py).  A Step object is kept by its  *)
(* function and its _id; functions are compared by identity.               *)
(***************************************************************************)
MaxStepObjs == 3    \* Step objects created in one run

Funcs == {"f", "g"}
StepIds == 0..(MaxStepObjs - 1)

RegOk(on) == [op |-> "register_step", on |-> on, err |-> "ok"]
RegRaised(on, err) == [op |-> "register_step", on |-> on, err |-> err]

\* Step.__init__: _id is left at the class default None.
Step_new(func) == [func |-> func, id |-> NoId]

\* The step ids under which a Step with the function func is registered.
IdsOfFunc(steps, reg, func) == { sid \in DOMAIN reg : steps[reg[sid]].func = func }

RegIdle ==
    /\ st_steps = <<>> /\ step_registry = <<>> /\ step_origin_registry = <<>>
    /\ next_step_id = 0 /\ st_last = PyNone

\* Context.__init__
RegInit ==
    /\ st_steps = <<>> /\ step_registry = <<>> /\ step_origin_registry = <<>>
    /\ next_step_id = 0 /\ st_last = [op |-> "init", on |-> NoRef, err |-> "ok"]

\* A Step object is created around the function func.
CreateStep(func) ==
    /\ UNCHANGED <<pushVars, graphVars, flatVars, ctxVars, stepVars, ovrVars, raceVars, twoVars, symVars, ovtVars>>
    /\ Len(st_steps) < MaxStepObjs
    /\ st_steps' = Append(st_steps, Step_new(func))
    /\ st_last' = [op |-> "Step", on |-> Len(st_steps) + 1, err |-> "ok"]
    /\ UNCHANGED <<step_registry, step_origin_registry, next_step_id>>

\* Context.register_step(step, tag, step_id) on the Step s; step_id NoId is
\* the default None.  step.id is a property: with _id None it raises the
\* ValueError the method catches; with _id set it gives the int, and the
\* call step.id() of that int raises TypeError.
ContextRegisterStep(s, t, step_id) ==
    /\ UNCHANGED <<pushVars, graphVars, flatVars, ctxVars, stepVars, ovrVars, raceVars, twoVars, symVars, ovtVars>>
    /\ IF st_steps[s].id # NoId
       THEN /\ st_last' = RegRaised(s, "TypeError: 'int' object is not callable")
            /\ UNCHANGED <<st_steps, step_registry, step_origin_registry, next_step_id>>
       ELSE LET sid == IF step_id = NoId THEN next_step_id ELSE step_id
                steps1 == [st_steps EXCEPT ![s].id = sid]
            IN /\ next_step_id' = IF step_id = NoId THEN next_step_id + 1 ELSE next_step_id
               /\ st_steps' = steps1
               /\ IF sid \in DOMAIN step_registry
                  THEN /\ st_last' = RegRaised(s, "ValueError: Duplicated Step id")
                       /\ UNCHANGED <<step_registry, step_origin_registry>>
                  ELSE IF IdsOfFunc(steps1, step_registry, steps1[s].func) # {}
                  THEN /\ st_last' = RegRaised(s, "ValueError: Function already registered")
                       /\ UNCHANGED <<step_registry, step_origin_registry>>
                  ELSE /\ step_registry' = (sid :> s) @@ step_registry
                       /\ step_origin_registry' =
                             (sid :> <<[step |-> sid, tag |-> t]>>) @@ step_origin_registry
                       /\ st_last' = RegOk(s)

\* register_step on any Step object created so far.
RegisterStepObject(step_id) ==
    \E s \in DOMAIN st_steps : ContextRegisterStep(s, "tag0", step_id)

(***************************************************************************)
(* Specifications.                                                         *)
(***************************************************************************)
FlatIdle == tree = PyNone /\ graph = PyNone /\ fpc = "idle"
PushIdle ==
    tag = PyNone /\ target = PyNone /\ pushed = PyNone /\ ppc = "idle" /\ binds = <<>>

Init ==
    /\ GraphInit /\ PushIdle /\ FlatIdle /\ CtxInit /\ StepIdle /\ OvrIdle
    /\ RaceIdle /\ TwoIdle
    /\ SymIdle
    /\ RegIdle
    /\ OvtIdle
Spec == Init /\ [][Next]_vars

InitPush ==
    /\ PushInit /\ GraphInit /\ FlatIdle /\ CtxInit /\ StepIdle /\ OvrIdle
    /\ RaceIdle /\ TwoIdle
    /\ SymIdle
    /\ RegIdle
    /\ OvtIdle
NextPush == Push
SpecPush == InitPush /\ [][NextPush]_vars

InitSeq ==
    /\ SeqInit /\ GraphInit /\ FlatIdle /\ CtxInit /\ StepIdle /\ OvrIdle
    /\ RaceIdle /\ TwoIdle
    /\ SymIdle
    /\ RegIdle
    /\ OvtIdle
NextSeq == \E v \in Targets : Bind(v)
SpecSeq == InitSeq /\ [][NextSeq]_vars

InitFlat ==
    /\ FlatInit /\ GraphInit /\ PushIdle /\ CtxInit /\ StepIdle /\ OvrIdle
    /\ RaceIdle /\ TwoIdle
    /\ SymIdle
    /\ RegIdle
    /\ OvtIdle
NextFlat == Flatten
SpecFlat == InitFlat /\ [][NextFlat]_vars

InitCtx ==
    /\ CtxInit /\ GraphInit /\ PushIdle /\ FlatIdle /\ StepIdle /\ OvrTracing
    /\ RaceIdle /\ TwoInit
    /\ SymIdle
    /\ RegIdle
    /\ OvtIdle
NextCtx ==
    \/ \E c \in Contexts : Enter(c)
    \/ \E c \in Contexts : Exit(c)
    \/ CallStep("defA", "tag0")
    \/ \E has_config \in BOOLEAN : KernelWrapper("K", has_config)
    \/ TraceExitKernel
SpecCtx == InitCtx /\ [][NextCtx]_vars

InitStep ==
    /\ StepInit /\ GraphInit /\ PushIdle /\ FlatIdle /\ CtxInit /\ OvrIdle
    /\ RaceIdle /\ TwoIdle
    /\ SymIdle
    /\ RegIdle
    /\ OvtIdle
NextStep ==
    \/ Define
    \/ \E args \in ArgLists, kwargs \in KwArgs : Call(args, kwargs)
SpecStep == InitStep /\ [][NextStep]_vars

InitOvr ==
    /\ OvrInit /\ GraphInit /\ PushIdle /\ FlatIdle /\ CtxInit /\ StepIdle
    /\ RaceIdle /\ TwoIdle
    /\ SymIdle
    /\ RegIdle
    /\ OvtIdle
NextOvr ==
    \/ \E c \in OvrContexts : OvrEnter(c, TraceThread)
    \/ \E c \in OvrContexts : OvrExit(c, TraceThread)
    \/ register_cls_extension
    \/ register_function_override
SpecOvr == InitOvr /\ [][NextOvr]_vars

InitOvrThreads ==
    /\ OvrInit /\ OvtInit /\ GraphInit /\ PushIdle /\ FlatIdle /\ CtxInit /\ StepIdle
    /\ RaceIdle /\ TwoIdle
    /\ SymIdle
    /\ RegIdle
NextOvrThreads ==
    \/ \E t \in Threads : OvtSetCurrent(t)
    \/ \E t \in Threads : OvtHasattrMethod(t)
    \/ \E t \in Threads : OvtGetattrMethod(t)
    \/ \E t \in Threads : OvtSetBackup(t)
    \/ \E t \in Threads : OvtAppendMod(t)
    \/ \E t \in Threads : OvtSetMethod(t)
    \/ \E t \in Threads : OvtHasattrFunc(t)
    \/ \E t \in Threads : OvtGetattrFunc(t)
    \/ \E t \in Threads : OvtAppendFuncMod(t)
    \/ \E t \in Threads : OvtSetFunc(t)
    \/ \E t \in Threads : OvtClearCurrent(t)
    \/ \E t \in Threads : OvtRestoreFunc(t)
    \/ \E t \in Threads : OvtHasattrRemovedFunc(t)
    \/ \E t \in Threads : OvtDelFunc(t)
    \/ \E t \in Threads : OvtClearFuncMods(t)
    \/ \E t \in Threads : OvtRestoreMethod(t)
    \/ \E t \in Threads : OvtHasattrBackup(t)
    \/ \E t \in Threads : OvtDelBackup(t)
    \/ \E t \in Threads : OvtHasattrAdded(t)
    \/ \E t \in Threads : OvtDelAdded(t)
    \/ \E t \in Threads : OvtClearMods(t)
SpecOvrThreads == InitOvrThreads /\ [][NextOvrThreads]_vars

InitRace ==
    /\ RaceInit /\ GraphInit /\ PushIdle /\ FlatIdle /\ CtxInit /\ StepIdle
    /\ OvrIdle /\ TwoIdle
    /\ SymIdle
    /\ RegIdle
    /\ OvtIdle
NextRace ==
    \E t \in RaceThreads :
        \/ RaceCheck(t)
        \/ RaceAssign(t)
        \/ RaceLoad(t)
        \/ RaceStore(t)
        \/ RaceIter(t)
        \/ RaceScan(t)
        \/ RaceInsert(t)
SpecRace == InitRace /\ [][NextRace]_vars

InitTwo ==
    /\ TwoInit /\ CtxInit /\ GraphInit /\ PushIdle /\ FlatIdle /\ StepIdle
    /\ OvrTracing /\ RaceIdle
    /\ SymIdle
    /\ RegIdle
    /\ OvtIdle
NextTwo ==
    \/ \E c \in Contexts : TraceEnter(c)
    \/ \E c \in Contexts : Exit(c)
    \/ \E has_config \in BOOLEAN : KernelWrapper("K", has_config)
    \/ CallStep("defA", "tag0")
    \/ TraceExitKernel
SpecTwo == InitTwo /\ [][NextTwo]_vars

InitSym ==
    /\ SymInit /\ GraphInit /\ PushIdle /\ FlatIdle /\ CtxInit /\ StepIdle
    /\ OvrIdle /\ RaceIdle /\ TwoIdle
    /\ RegIdle
    /\ OvtIdle
NextSym ==
    \/ \E method \in BinaryMethods : BinaryOp(method)
    \/ Neg
    \/ Construct
SpecSym == InitSym /\ [][NextSym]_vars

InitReg ==
    /\ RegInit /\ GraphInit /\ PushIdle /\ FlatIdle /\ CtxInit /\ StepIdle
    /\ OvrIdle /\ RaceIdle /\ TwoIdle /\ SymIdle
    /\ OvtIdle
NextReg ==
    \/ \E func \in Funcs : CreateStep(func)
    \/ \E step_id \in StepIds \cup {NoId} : RegisterStepObject(step_id)
SpecReg == InitReg /\ [][NextReg]_vars


(***************************************************************************)
(* Vocabulary of the properties below.                                     *)
(***************************************************************************)
Range(f) == { f[i] : i \in DOMAIN f }
IsLoop(h) == nodes[h].kind # "StepState"
IsGrid(h) == nodes[h].kind = "GridLoopState"

RECURSIVE Subtree(_)
\* The loop or step h and everything below it, following child lists.
Subtree(h) == {h} \cup UNION { Subtree(c) : c \in Range(nodes[h].inner_nodes) }

\* How often child occurs in the child list of loop.
Occurrences(loop, child) ==
    Cardinality({ i \in DOMAIN nodes[loop].inner_nodes : nodes[loop].inner_nodes[i] = child })

\* The errors of the spec's section 7, as the code raises them.
NestedKernel == "ValueError: Already in a kernel"
ScopeErrors ==
    { "ValueError: Not in a kernel",
      "DSLRuntimeError: Can't add step outside of kernel scope",
      "DSLRuntimeError: Can't add loop outside of kernel scope",
      "DSLRuntimeError: Can't exit the grid loop",
      "DSLRuntimeError: Current loop has no parent",
      "DSLRuntimeError: Can't exit kernel -- not in kernel scope",
      "DSLRuntimeError: Cannot exit kernel -- not in the grid loop" }

(***************************************************************************)
(* C1.  tag_push(C, V) changes C in exactly one place: the first None of a *)
(* depth-first, left-to-right search becomes V.                            *)
(***************************************************************************)
RECURSIVE HasNone(_)
\* Some slot of the coordinate c is None.
HasNone(c) ==
    \/ c.k = "None"
    \/ c.k = "tuple" /\ \E i \in DOMAIN c.items : HasNone(c.items[i])

RECURSIVE FillFirst(_, _)
\* The coordinate c with its first None (depth first, left to right)
\* replaced by v and every other position as in c; c itself without a None.
FillFirst(c, v) ==
    IF c.k = "None" THEN v
    ELSE IF c.k = "tuple" /\ HasNone(c)
    THEN LET first == CHOOSE i \in DOMAIN c.items :
                         /\ HasNone(c.items[i])
                         /\ \A j \in 1..(i - 1) : ~HasNone(c.items[j])
         IN PyTuple([c.items EXCEPT ![first] = FillFirst(c.items[first], v)])
    ELSE c

\* C1 as claimed: what tag_push returns is the coordinate with exactly its
\* first None replaced by the value, and nothing else changed.
C1_PushFillsFirstNone == ppc = "done" => pushed = FillFirst(tag, target)

(***************************************************************************)
(* C11.  A run of binds fills the slots of a composite of unbound slots    *)
(* strictly from left to right.                                            *)
(***************************************************************************)
\* The composite of n slots whose first slots hold the values vs, in order,
\* and whose other slots are unbound.
FirstBound(n, vs) == PyTuple([i \in 1..n |-> IF i <= Len(vs) THEN vs[i] ELSE PyNone])

\* C11: after k binds of bound values (values without an unbound slot) to a
\* composite of n >= k unbound slots, exactly the first k slots hold the k
\* values in call order; after n binds the composite is (v1, ..., vn).
C11_SequentialBindsFillLeftToRight ==
    ( /\ ppc = "seq"
      /\ Len(binds) <= Len(tag.items)
      /\ \A i \in DOMAIN binds : ~HasNone(binds[i]) )
       => pushed = FirstBound(Len(tag.items), binds)

\* Three slots have been bound by three bound values, a composite and a
\* SymInt among them.
C11_Witness ==
    /\ ppc = "seq"
    /\ Len(tag.items) = 3 /\ Len(binds) = 3
    /\ \A i \in DOMAIN binds : ~HasNone(binds[i])
    /\ binds[1].k = "tuple" /\ binds[1].items # <<>>
    /\ binds[2].k = "SymInt" /\ binds[3] # binds[2]

(***************************************************************************)
(* C12.  tag_push on a coordinate without an unbound slot returns the      *)
(* coordinate as it is.                                                    *)
(***************************************************************************)
\* C12: for every value, tag_push on a coordinate that has no None at any
\* depth returns that coordinate.
C12_FullyBoundIsUnchanged == (ppc = "done" /\ ~HasNone(tag)) => pushed = tag

\* tag_push has returned on a fully bound composite with a fully bound
\* composite in it, for a value that is not None.
C12_Witness ==
    /\ ppc = "done"
    /\ ~HasNone(tag)
    /\ tag.k = "tuple"
    /\ \E i \in DOMAIN tag.items : tag.items[i].k = "tuple" /\ tag.items[i].items # <<>>
    /\ target # PyNone

(***************************************************************************)
(* C2.  Ids of all node kinds, kernels included, are pairwise distinct and *)
(* strictly increasing in registration order.                              *)
(***************************************************************************)
\* C2 as claimed: no kernel shares its id with a loop or a step, and a
\* kernel's id is smaller than the id of the grid loop registered right
\* after it.  (Kernels draw their ids from a counter of their own.)
C2_IdsDistinctAcrossKinds ==
    /\ \A kb \in DOMAIN kernels, h \in DOMAIN nodes : kernels[kb].id # nodes[h].id
    /\ \A kb \in DOMAIN kernels : kernels[kb].id < nodes[kernels[kb].grid_loop].id

\* C2 amended: the ids of loops and steps (grid loops included) are pairwise
\* distinct, strictly increasing in registration order and below the
\* counter, so none is handed out again; the same holds of kernel ids among
\* kernels; each registry maps an id to the object that carries it.
C2_NodeIdsIncrease ==
    /\ \A h \in DOMAIN nodes : nodes[h].id \in 0..(next_node_id - 1)
    /\ \A g, h \in DOMAIN nodes : g < h => nodes[g].id < nodes[h].id
    /\ \A i \in DOMAIN node_registry : nodes[node_registry[i]].id = i
    /\ \A h \in DOMAIN nodes : nodes[h].id \in DOMAIN node_registry
    /\ \A kb \in DOMAIN kernels : kernels[kb].id \in 0..(next_kernel_id - 1)
    /\ \A ka, kb \in DOMAIN kernels : ka < kb => kernels[ka].id < kernels[kb].id
    /\ \A i \in DOMAIN kernel_registry : kernels[kernel_registry[i]].id = i

\* Two kernels, a nested loop and a step have been registered.
C2_Witness ==
    /\ Len(kernels) >= 2
    /\ \E h \in DOMAIN nodes : nodes[h].kind = "KernelLoopState"
    /\ \E h \in DOMAIN nodes : nodes[h].kind = "StepState"

(***************************************************************************)
(* C3.  register_kernel while a kernel is current raises the NestedKernel  *)
(* error and leaves the open kernel current, with both registries, both id *)
(* counters and every builder's scope pointer unchanged.                   *)
(***************************************************************************)
C3_NestedKernelRejected ==
    [][ (current_kernel_id # NoId /\ last'.op = "register_kernel")
           => /\ last'.err = NestedKernel
              /\ UNCHANGED <<current_kernel_id, kernel_registry, node_registry,
                             next_node_id, next_kernel_id, kernels, nodes>> ]_vars

C3_Witness ==
    /\ last.op = "register_kernel"
    /\ last.err = NestedKernel
    /\ current_kernel_id # NoId
    /\ kernels[current_kernel].current_loop # kernels[current_kernel].grid_loop

(***************************************************************************)
(* C4.  CnCContext.exit_kernel while the current kernel's scope is a       *)
(* nested loop raises a scope error and leaves the kernel open and its     *)
(* scope pointer unchanged.                                                *)
(***************************************************************************)
C4_CtxExitKernelNeedsGridScope ==
    [][ ( /\ current_kernel_id # NoId
          /\ kernels[current_kernel].current_loop # kernels[current_kernel].grid_loop
          /\ last'.op = "exit_kernel" )
           => /\ last'.err \in ScopeErrors
              /\ UNCHANGED <<current_kernel_id, kernels>> ]_vars

(***************************************************************************)
(* C5.  register_loop and register_step with no kernel open raise a scope  *)
(* error and register nothing.                                             *)
(***************************************************************************)
C5_NoKernelNoRegistration ==
    [][ (current_kernel_id = NoId /\ last'.op \in {"register_loop", "register_step"})
           => /\ last'.err \in ScopeErrors
              /\ UNCHANGED <<nodes, node_registry, next_node_id>> ]_vars

(***************************************************************************)
(* C6.  KernelBuilder.exit_loop at the grid loop raises "Can't exit the    *)
(* grid loop" and leaves the scope at the grid loop; an exit_loop never    *)
(* takes a scope that is inside the grid loop's subtree out of it.         *)
(***************************************************************************)
C6_ExitLoopStopsAtGrid ==
    [][ \A kb \in DOMAIN kernels :
          (last'.op = "exit_loop" /\ last'.on = kb) =>
             LET grid == kernels[kb].grid_loop
                 cur == kernels[kb].current_loop
             IN /\ cur = grid =>
                     /\ last'.err = "DSLRuntimeError: Can't exit the grid loop"
                     /\ kernels'[kb].current_loop = grid
                /\ cur # NoRef => kernels'[kb].current_loop \in Subtree(grid) ]_vars

\* exit_loop has just been refused on a builder whose scope is its grid loop
\* and that holds a nested loop it had entered and left before.
C6_Witness ==
    /\ last.op = "exit_loop"
    /\ last.err = "DSLRuntimeError: Can't exit the grid loop"
    /\ kernels[last.on].current_loop = kernels[last.on].grid_loop
    /\ nodes[kernels[last.on].grid_loop].inner_nodes # <<>>

(***************************************************************************)
(* C7.  Every registered node other than a grid loop has exactly one       *)
(* parent, which lists it exactly once; every entry of a child list points *)
(* back at the loop; grid loops have no parent and are in no child list.   *)
(***************************************************************************)
C7_ParentChildConsistent ==
    /\ \A h \in DOMAIN nodes :
         (nodes[h].id # NoId /\ ~IsGrid(h)) =>
            /\ nodes[h].parent # NoRef
            /\ Occurrences(nodes[h].parent, h) = 1
            /\ \A l \in DOMAIN nodes : l # nodes[h].parent => Occurrences(l, h) = 0
    /\ \A l \in DOMAIN nodes : \A c \in Range(nodes[l].inner_nodes) : nodes[c].parent = l
    /\ \A h \in DOMAIN nodes :
         IsGrid(h) => /\ nodes[h].parent = NoRef
                      /\ \A l \in DOMAIN nodes : Occurrences(l, h) = 0

(***************************************************************************)
(* C8.  dump(kernel) lists the kernel, then the grid loop, then every      *)
(* descendant in depth-first pre-order along the child lists, one line per *)
(* node, each child one tab deeper than the loop that owns it.             *)
(***************************************************************************)
\* x comes before y in the pre-order of the tree: x is above y, or x and y
\* lie below two different children of one loop, x's being the earlier one.
PreOrderBefore(x, y) ==
    \/ x # y /\ y \in Subtree(x)
    \/ \E p \in DOMAIN nodes : \E i, j \in DOMAIN nodes[p].inner_nodes :
          /\ i < j
          /\ x \in Subtree(nodes[p].inner_nodes[i])
          /\ y \in Subtree(nodes[p].inner_nodes[j])

\* C8: the dump of every kernel is the kernel line, then the lines of the
\* grid loop's subtree in pre-order, each child one tab deeper than its loop.
C8_DumpIsPreOrder ==
    \A kb \in DOMAIN kernels :
       LET d == KernelDump(kb)
           grid == kernels[kb].grid_loop
           body == Tail(d)
           LinesOf(h) == { i \in DOMAIN body :
                             body[i].id = nodes[h].id /\ body[i].kind # "[[[Kernel]]]" }
           pos(h) == CHOOSE i \in LinesOf(h) : TRUE
       IN /\ d[1].kind = "[[[Kernel]]]" /\ d[1].name = kernels[kb].name
          /\ d[1].id = kernels[kb].id /\ d[1].tabs = 0
          /\ Len(body) = Cardinality(Subtree(grid))
          /\ \A h \in Subtree(grid) : Cardinality(LinesOf(h)) = 1
          /\ pos(grid) = 1 /\ body[1].kind = "<GridLoop>" /\ body[1].tabs = 0
          /\ \A p \in Subtree(grid) : \A c \in Range(nodes[p].inner_nodes) :
                body[pos(c)].tabs = body[pos(p)].tabs + 1
          /\ \A x, y \in Subtree(grid) :
                x # y => (pos(x) < pos(y) <=> PreOrderBefore(x, y))

\* A kernel whose grid loop holds a loop with a step in it, followed by a
\* sibling of that loop.
C8_Witness ==
    \E kb \in DOMAIN kernels :
       LET inner == nodes[kernels[kb].grid_loop].inner_nodes IN
       /\ Len(inner) >= 2
       /\ IsLoop(inner[1])
       /\ nodes[inner[1]].inner_nodes # <<>>

(***************************************************************************)
(* C9.  The scenario open_kernel("K"); open_loop(); record_step(defA, t);  *)
(* close_loop(); close_kernel().                                           *)
(***************************************************************************)
ScenarioDone == script = Len(ScenarioScript)
DumpKinds(kb) == [i \in DOMAIN KernelDump(kb) |-> KernelDump(kb)[i].kind]
DumpNames(kb) == [i \in DOMAIN KernelDump(kb) |-> KernelDump(kb)[i].name]
DumpTabs(kb) == [i \in DOMAIN KernelDump(kb) |-> KernelDump(kb)[i].tabs]

\* C9 as claimed: after the scenario the dump has exactly three lines: the
\* kernel K, a loop, the step defA.
C9_ScenarioDumpsThreeLines ==
    ScenarioDone =>
       /\ Len(KernelDump(1)) = 3
       /\ KernelDump(1)[1].kind = "[[[Kernel]]]" /\ KernelDump(1)[1].name = "K"
       /\ KernelDump(1)[2].kind \in {"<GridLoop>", "<KernelLoop>"}
       /\ KernelDump(1)[3].kind = "<Step>" /\ KernelDump(1)[3].name = "defA"

\* C9 amended: after the scenario the dump has exactly four lines: the
\* kernel K, its grid loop (no tab), the loop that open_loop opened (one
\* tab) and the step defA (two tabs).
C9_ScenarioDumpsFourLines ==
    ScenarioDone =>
       /\ DumpKinds(1) = <<"[[[Kernel]]]", "<GridLoop>", "<KernelLoop>", "<Step>">>
       /\ DumpNames(1) = <<"K", "", "", "defA">>
       /\ DumpTabs(1) = <<0, 0, 1, 2>>

C9_Witness == ScenarioDone /\ last = Ok("exit_kernel") /\ Len(kernels) = 1

(***************************************************************************)
(* C10.  Flattening a loop whose body is [StepA, NestedLoop{StepB}, StepC]. *)
(***************************************************************************)
\* The diagram id of the drawn tree node n.
IdOf(n) == (CHOOSE d \in Range(graph.dot_nodes) : d.node = n).id
Drawn(n) == \E d \in Range(graph.dot_nodes) : d.node = n
\* The forward (layout) edges of the diagram that end in tree node n.
EdgesInto(n) == { e \in Range(graph.dot_edges) : e.constraint /\ e.dst = IdOf(n) }

\* Loop l has the body [a, nl, c], nl is a loop with the body [b], the
\* steps a, b, c are Module wrappers without statements, all are drawn and
\* all declare a target.
IsScenarioLoop(l, a, nl, b, c) ==
    /\ Body(l) = <<a, nl, c>> /\ Body(nl) = <<b>>
    /\ Body(a) = <<>> /\ Body(b) = <<>> /\ Body(c) = <<>>
    /\ ClassName(l) = "For" /\ ClassName(nl) = "For"
    /\ \A s \in {a, b, c} : ClassName(s) = "Module"
    /\ \A n \in {l, a, nl, b, c} : should_visualize(n)
    /\ \A n \in {l, a, nl, b, c} : target_text(n) # NoLabel

\* C10 as claimed: the chain is StepA, NestedLoop, StepB, StepC and the one
\* edge into StepC comes from StepB and carries StepB's target.
C10_EdgeIntoStepCCarriesStepBTarget ==
    fpc = "done" =>
       \A l, a, nl, b, c \in DOMAIN tree.par :
          IsScenarioLoop(l, a, nl, b, c) =>
             /\ \A n \in {a, nl, b, c} : Drawn(n)
             /\ \E e \in EdgesInto(nl) : e.src = IdOf(a)
             /\ \E e \in EdgesInto(b) : e.src = IdOf(nl)
             /\ EdgesInto(c) =
                   { [src |-> IdOf(b), dst |-> IdOf(c),
                      label |-> get_target_label(b), constraint |-> TRUE] }

(***************************************************************************)
(* C13.  The same step-definition invoked twice in one open kernel.        *)
(***************************************************************************)
\* The kernel of the context is open and its builder in kernel scope.
KernelOpen == current_kernel # NoRef /\ kernels[current_kernel].in_kernel_scope

\* C13: every invocation of a step-definition o with a tag t in an open
\* kernel succeeds and adds one Step node with origin o, tag t and an id no
\* other node has, below the current loop, and leaves id, origin and tag of
\* every earlier node as they were; so two invocations of one definition
\* with two tags give two nodes with distinct ids, one origin and their own
\* tags.
C13_SameStepTwiceGivesTwoNodes ==
    [][ \A o \in Origins, t \in StepTags :
          (KernelOpen /\ RecordStep(o, t)) =>
             LET h == Len(nodes) + 1 IN
             /\ last' = Ok("register_step")
             /\ Len(nodes') = h
             /\ nodes'[h].kind = "StepState"
             /\ nodes'[h].origin = o /\ nodes'[h].tag = t
             /\ nodes'[h].id \notin { nodes[g].id : g \in DOMAIN nodes }
             /\ nodes'[h].id # NoId /\ node_registry'[nodes'[h].id] = h
             /\ nodes'[h].parent = kernels[current_kernel].current_loop
             /\ \A g \in DOMAIN nodes :
                   /\ nodes'[g].id = nodes[g].id
                   /\ nodes'[g].origin = nodes[g].origin
                   /\ nodes'[g].tag = nodes[g].tag ]_vars

\* Two Step nodes of one open kernel with the same origin, two tags and two
\* ids, the second just registered.
C13_Witness ==
    /\ KernelOpen
    /\ last = Ok("register_step")
    /\ \E g, h \in Subtree(kernels[current_kernel].grid_loop) :
          /\ g # h
          /\ nodes[g].kind = "StepState" /\ nodes[h].kind = "StepState"
          /\ nodes[g].origin = nodes[h].origin
          /\ nodes[g].tag # nodes[h].tag
          /\ nodes[g].id # nodes[h].id

(***************************************************************************)
(* C14.  Loops of one context get distinct induction-variable symbols,     *)
(* numbered in creation order.                                             *)
(***************************************************************************)
\* C14: of any two loops (grid loops included) the one created later has
\* the symbol with the larger number, and every symbol handed out lies
\* below the source's counter.
C14_LoopSymbolsIncrease ==
    /\ \A g, h \in DOMAIN nodes :
          (IsLoop(g) /\ IsLoop(h) /\ g < h) => nodes[g].target < nodes[h].target
    /\ \A h \in DOMAIN nodes : IsLoop(h) => nodes[h].target \in 0..(tile_count - 1)

\* Two kernels have been launched and the first holds two sibling loops,
\* opened and closed one after the other.
C14_Witness ==
    /\ Len(kernels) = 2
    /\ LET inner == nodes[kernels[1].grid_loop].inner_nodes IN
       /\ Len(inner) = 2
       /\ IsLoop(inner[1]) /\ IsLoop(inner[2])

(***************************************************************************)
(* C15.  register_node on a node object that is already registered.        *)
(***************************************************************************)
\* C15: register_node on a registered node raises the duplicate-node error
\* (RuntimeError "... Duplicated node registration.") and leaves the nodes,
\* the node registry and the id counter as they were.
C15_DuplicateNodeRejected ==
    [][ last'.op = "register_node" =>
          /\ last'.err = "RuntimeError: Node id is already set. Duplicated node registration."
          /\ UNCHANGED <<nodes, node_registry, next_node_id, kernels,
                         kernel_registry, next_kernel_id, current_kernel_id>> ]_vars

\* A registered step of an open kernel has just been refused.
C15_Witness ==
    /\ last.op = "register_node"
    /\ last.err = "RuntimeError: Node id is already set. Duplicated node registration."
    /\ KernelOpen
    /\ \E h \in DOMAIN nodes : nodes[h].kind = "StepState" /\ nodes[h].parent # NoRef

(***************************************************************************)
(* C18.  The tree of a closed kernel does not change.                      *)
(***************************************************************************)
\* The kernel of builder kb has been registered and is not the current one.
Closed(kb) == kernels[kb].id # NoId /\ kernels[kb].id # current_kernel_id

\* C18: no step of the program changes the grid loop of a closed kernel or
\* any node of its tree (its children and their order, its parent, its id).
C18_ClosedKernelTreeIsFrozen ==
    [][ \A kb \in DOMAIN kernels :
          Closed(kb) =>
             /\ kernels'[kb].grid_loop = kernels[kb].grid_loop
             /\ \A h \in Subtree(kernels[kb].grid_loop) : nodes'[h] = nodes[h] ]_vars

\* After a kernel with a loop in it was closed, a second kernel has been
\* opened and a step recorded in it.
C18_Witness ==
    /\ Len(kernels) = 2
    /\ Closed(1)
    /\ nodes[kernels[1].grid_loop].inner_nodes # <<>>
    /\ current_kernel = 2
    /\ last = Ok("register_step")

\* C16: after any properly nested sequence of enters and exits on distinct
\* context objects, CnCContext.current() is the context entered last among
\* those not yet exited, and None once every one of them has been exited.
Innermost == IF active = <<>> THEN NoCtx ELSE active[Len(active)]
C16_CurrentIsInnermostActive == nested => current = Innermost
\* Two contexts were entered one inside the other and the inner one exited.
C16_Witness ==
    /\ nested
    /\ Len(active) = 1
    /\ \E c \in Contexts : c # active[1] /\ prev_context[c] = active[1]
    /\ last.op = "__exit__"

\* C17: a step called while no context is active goes straight to the jit
\* function: no node is created and the registries, the counters and the
\* scope pointers stay as they were.
C17_NoContextPassesThrough ==
    [][(current = NoCtx /\ last'.op \in {"_jit_wrapper", "register_step"})
         => /\ last' = Ok("_jit_wrapper")
            /\ UNCHANGED <<nodes, kernels, node_registry, kernel_registry,
                           t_ctx, t_owner, t_pending, tile_count>>]_vars
\* A step passed through after a context had recorded a step in a kernel
\* and had been exited.
C17_Witness ==
    /\ last = Ok("_jit_wrapper")
    /\ current = NoCtx
    /\ \E h \in DOMAIN nodes : nodes[h].kind = "StepState" /\ nodes[h].parent # NoRef

\* A call Python accepts for the declared function: every parameter is bound
\* once, by position or by keyword.
WellFormedCall ==
    /\ spc = "called"
    /\ Len(step_call.args) <= Len(decl.params)
    /\ DOMAIN step_call.kwargs =
           { decl.params[i] : i \in (Len(step_call.args) + 1)..Len(decl.params) }
\* The argument the call binds to the parameter name.
BoundArgument(name) ==
    IF name \in DOMAIN step_call.kwargs
    THEN step_call.kwargs[name]
    ELSE step_call.args[IndexOf(decl.params, name)]

\* C19: at every call a literal tag resolves to exactly that literal
\* (integers including 0, symbols, composites including the empty one), and
\* a parameter-name tag resolves to the argument bound to that parameter,
\* passed by position or by keyword.
C19_TagResolvesAtCall ==
    WellFormedCall =>
        /\ decl.tag.k # "str" => resolved = StepOk(decl.tag)
        /\ (decl.tag.k = "str" /\ decl.tag.s \in Range(decl.params))
              => resolved = StepOk(BoundArgument(decl.tag.s))

\* C20: a step definition whose tag names no parameter of the function is
\* rejected with a lookup failure when it is created, before any call.
C20_UnknownTagNameRejectedAtCreation ==
    (spc # "decl" /\ decl.tag.k = "str" /\ decl.tag.s \notin Range(decl.params))
        => spc = "rejected"

\* What the registry puts into the attribute slot.
Replacements(slot) ==
    { registry.extensions[i].methods[j][2] :
        <<i, j>> \in { <<i, j>> \in (DOMAIN registry.extensions) \X (1..2) :
                        /\ j \in DOMAIN registry.extensions[i].methods
                        /\ <<registry.extensions[i].target_cls,
                             registry.extensions[i].methods[j][1]>> = slot } }
    \cup { registry.function_overrides[i].new_func :
             i \in { i \in DOMAIN registry.function_overrides :
                       <<registry.function_overrides[i].target,
                         registry.function_overrides[i].attr_name>> = slot } }
NoNoneBefore == \A s \in Slots : pre_attrs[s] # NoneValue

\* C21: one override context entered and exited is a round trip: inside the
\* block every patched attribute holds a registered replacement, and after
\* the exit every attribute of the targets, backups included, is what it was
\* before the enter.
C21_EnterExitIsRoundTrip ==
    /\ (Len(ovr_trace) = 1) =>
           \A s \in ClassSlots \cup FunctionSlots : attrs[s] \in Replacements(s)
    /\ (Len(ovr_trace) = 2 /\ ovr_trace[2].op = "exit") => attrs = pre_attrs

\* C22: on every thread, current() is the innermost override context the
\* thread has entered and not yet exited, and None only when it has none.
C22_CurrentIsActiveOverrideContext ==
    \A t \in Threads :
        /\ ovr_stack[t] # <<>> => ovr_current[t] = ovr_stack[t][Len(ovr_stack[t])]
        /\ ovr_current[t] = NoOvr => ovr_stack[t] = <<>>

\* Each of the two threads has entered its context and has returned from
\* its __exit__ without an exception.
BothThreadsDone == \A t \in Threads : o_pc[t] = "done"
\* An __enter__ or an __exit__ ended in an exception on some thread.
SomeThreadRaised == \E t \in Threads : o_pc[t] = "raised"

\* C27: once every entered override context has exited, in whatever order
\* the two threads entered and left their blocks, every attribute of the
\* targets is what it was before the first enter (stated for targets that
\* held no None, which leaves the loss of None attributes in a single round
\* trip aside).
C27_AllExitedRestoresOriginals ==
    (BothThreadsDone /\ NoNoneBefore) => attrs = pre_attrs

\* The k-th registration of the thread t has returned normally.
Registered(n) == n[2] <= r_done[n[1]] /\ r_err[n[1]][n[2]] = "ok"

\* C23: under every interleaving of two threads registering nodes in one
\* context, no two nodes get the same id, and every node whose registration
\* returned normally is in the registry under its id.
C23_ConcurrentRegistrationIsGuarded ==
    /\ \A n1, n2 \in RaceNodes :
          (n1 # n2 /\ r_node_id[n1] # NoId /\ r_node_id[n2] # NoId)
              => r_node_id[n1] # r_node_id[n2]
    /\ \A n \in RaceNodes :
          Registered(n) => /\ r_node_id[n] \in DOMAIN r_registry
                           /\ r_registry[r_node_id[n]] = n

\* What the context object c sees of the graph: its registries, its current
\* kernel and that kernel's current scope.
ViewOf(c) ==
    [node_registry |-> node_registry,
     kernel_registry |-> kernel_registry,
     current_kernel |-> current_kernel_of(c),
     scope |-> IF current_kernel_of(c) = NoRef THEN NoRef
               ELSE kernels[current_kernel_of(c)].current_loop]
\* The kernel whose grid loop is g.
KernelWithGrid(ks, g) == CHOOSE kb \in DOMAIN ks : ks[kb].grid_loop = g

\* C24: contexts are independent: a call made on one context leaves what
\* every other context sees of its registries, current kernel and current
\* scope unchanged, and a step traced under a context is attached to a
\* kernel that was opened through that same context.
C24_ContextsAreIndependent ==
    [][ /\ \A a, b \in Contexts :
              (a # b /\ current = b /\ current' = b) => ViewOf(a)' = ViewOf(a)
        /\ (Len(nodes') = Len(nodes) + 1 /\ nodes'[Len(nodes')].parent # NoRef)
              => t_owner'[KernelWithGrid(kernels', nodes'[Len(nodes')].parent)]
                   = current
      ]_vars

\* The number of parent links from the node h up to the loop g, -1 when the
\* chain from h ends without meeting g.
RECURSIVE Hops(_, _, _)
Hops(ns, h, g) ==
    IF h = g THEN 0
    ELSE IF h = NoRef \/ ns[h].parent = NoRef THEN -1
    ELSE LET up == Hops(ns, ns[h].parent, g) IN IF up = -1 THEN -1 ELSE up + 1
\* The nesting depth of the current scope of the kernel kb.
Depth(ns, ks, kb) == Hops(ns, ks[kb].current_loop, ks[kb].grid_loop)
CallOk(l, op) == l.op = op /\ l.err = "ok"

\* C25: while a kernel is open its current scope is the grid loop or a loop
\* below it; a successful open_loop makes the new loop, a child of the old
\* scope, the scope (depth + 1), a successful close_loop moves the scope to
\* its parent (depth - 1), so the depth is the number of opens minus the
\* number of closes and a close undoes its open; record_step leaves the scope
\* where it is.
C25_ScopeFollowsOpensAndCloses ==
    /\ [](KernelOpen => Depth(nodes, kernels, current_kernel) >= 0)
    /\ [][KernelOpen =>
            LET kb == current_kernel
                cur == kernels[kb].current_loop
                cur2 == kernels'[kb].current_loop
            IN /\ CallOk(last', "register_loop")
                    => /\ nodes'[cur2].parent = cur
                       /\ Depth(nodes', kernels', kb) = Depth(nodes, kernels, kb) + 1
               /\ (CallOk(last', "exit_loop") /\ last'.on = kb)
                    => /\ cur2 = nodes[cur].parent
                       /\ Depth(nodes', kernels', kb) = Depth(nodes, kernels, kb) - 1
               /\ last'.op = "register_step" => cur2 = cur
         ]_vars
\* Two loops were opened in an open kernel, a step recorded in the inner one,
\* and the inner one closed again.
C25_Witness ==
    /\ KernelOpen
    /\ CallOk(last, "exit_loop")
    /\ Depth(nodes, kernels, current_kernel) = 1
    /\ \E h \in DOMAIN nodes :
          /\ nodes[h].kind = "StepState"
          /\ nodes[h].parent # NoRef
          /\ nodes[nodes[h].parent].parent = kernels[current_kernel].current_loop

\* C26: when the body of a traced loop has finished, the decorator closes the
\* loop scope and returns: the current scope of the kernel is the parent of
\* the loop again.
C26_TracedLoopClosesItsScope ==
    [][(last'.op = "loop_selector" /\ KernelOpen
          /\ kernels[current_kernel].current_loop # kernels[current_kernel].grid_loop)
         => /\ last'.err = "ok"
            /\ kernels'[current_kernel].current_loop
                 = nodes[kernels[current_kernel].current_loop].parent
      ]_vars


(***************************************************************************)
(* C28.  The layout-affecting edges of the diagram form one chain.         *)
(***************************************************************************)
\* The tree nodes the flattener draws, and the drawn node that comes right
\* before n in depth-first pre-order (the tree is numbered in pre-order).
DrawnNodes == { n \in DOMAIN tree.par : Drawn(n) }
HasDrawnBefore(n) == \E m \in DrawnNodes : m < n
DrawnBefore(n) == CHOOSE m \in DrawnNodes : m < n /\ \A k \in DrawnNodes : k < n => k <= m
\* The diagram nodes made for tree node n.
DiagramNodesOf(n) == { i \in DOMAIN graph.dot_nodes : graph.dot_nodes[i].node = n }
\* The layout-affecting edges, as positions in the edge list, that end in n.
LayoutEdgesInto(n) ==
    { i \in DOMAIN graph.dot_edges :
         graph.dot_edges[i].constraint /\ graph.dot_edges[i].dst = IdOf(n) }
\* The tree is made of loops and steps only: For wrappers, Module wrappers
\* and statements of other classes that hold no wrapped statement.
LoopsAndSteps ==
    \A n \in DOMAIN tree.par : ClassName(n) \in {"For", "Module"} \/ Body(n) = <<>>

\* Every node that is to be drawn has exactly one diagram node, the first
\* drawn node has no incoming layout-affecting edge, and every other drawn
\* node has exactly one, which comes from the drawn node right before it in
\* pre-order.
OneChain ==
       \A n \in DOMAIN tree.par :
          IF should_visualize(n)
          THEN /\ Cardinality(DiagramNodesOf(n)) = 1
               /\ IF HasDrawnBefore(n)
                  THEN /\ Cardinality(LayoutEdgesInto(n)) = 1
                       /\ \A i \in LayoutEdgesInto(n) :
                             graph.dot_edges[i].src = IdOf(DrawnBefore(n))
                  ELSE LayoutEdgesInto(n) = {}
          ELSE DiagramNodesOf(n) = {}
\* The value a loop visit returns for chaining: its last drawn descendant,
\* the loop itself if it is drawn and drew none, None if nothing was drawn.
LastDrawn == CHOOSE m \in DrawnNodes : \A k \in DrawnNodes : k <= m
LoopReturnsLastDrawn ==
    ClassName(1) = "For" =>
       graph.last_id = IF DrawnNodes = {} THEN NoNode ELSE IdOf(LastDrawn)

\* C28: after flattening a tree of loops and steps, a loop visit returns its
\* last drawn descendant (itself only if it drew none), each drawn node has
\* exactly one diagram node, and every drawn node except the first has
\* exactly one incoming layout-affecting edge, which comes from the drawn
\* node right before it in depth-first pre-order.
C28_LayoutEdgesFormOneChain ==
    (fpc = "done" /\ LoopsAndSteps) => (OneChain /\ LoopReturnsLastDrawn)
\* A drawn loop holding a drawn nested loop with a drawn step, followed by a
\* drawn step: the chain leaves the nested loop from its step.
C28_Witness ==
    /\ fpc = "done" /\ LoopsAndSteps
    /\ \E l, nl, b, c \in DOMAIN tree.par :
          /\ Body(l) = <<nl, c>> /\ Body(nl) = <<b>>
          /\ ClassName(l) = "For" /\ ClassName(nl) = "For"
          /\ \A n \in {l, nl, b, c} : Drawn(n)
          /\ \E i \in LayoutEdgesInto(c) : graph.dot_edges[i].src = IdOf(b)


(***************************************************************************)
(* C29.  The edge into a loop's first child carries the loop's target.     *)
(***************************************************************************)
\* C29: after flattening, for every loop with a non-empty body whose first
\* child is drawn, every layout-affecting edge into that child is labelled
\* with the text of the loop's own target, and when the loop is drawn there
\* is exactly one such edge and it comes from the loop.
C29_FirstChildEdgeCarriesLoopTarget ==
    fpc = "done" =>
       \A l \in DOMAIN tree.par :
          (ClassName(l) = "For" /\ Body(l) # <<>> /\ Drawn(Body(l)[1])) =>
             LET f == Body(l)[1] IN
             /\ \A i \in LayoutEdgesInto(f) :
                   graph.dot_edges[i].label = target_text(l)
             /\ Drawn(l) =>
                   /\ Cardinality(LayoutEdgesInto(f)) = 1
                   /\ \A i \in LayoutEdgesInto(f) : graph.dot_edges[i].src = IdOf(l)
\* A drawn loop l follows a drawn step a with a target of its own inside an
\* outer loop; the edge into l's first child carries l's target, not a's.
C29_Witness ==
    /\ fpc = "done"
    /\ \E o, a, l, f \in DOMAIN tree.par :
          /\ ClassName(o) = "For" /\ Body(o) = <<a, l>>
          /\ ClassName(a) = "Module" /\ target_text(a) # NoLabel /\ Drawn(a)
          /\ ClassName(l) = "For" /\ Drawn(l) /\ Body(l) = <<f>> /\ Drawn(f)
          /\ \E i \in LayoutEdgesInto(l) : graph.dot_edges[i].label = target_text(a)
          /\ \E i \in LayoutEdgesInto(f) :
                /\ graph.dot_edges[i].label = target_text(l)
                /\ graph.dot_edges[i].label # target_text(a)

(***************************************************************************)
(* C30.  The back-edge of a drawn loop.                                    *)
(***************************************************************************)
\* The drawn nodes below loop l, and the edges marked constraint="false"
\* that end in l, as positions in the edge list.
DrawnBelow(l) ==
    { d \in DrawnNodes : d # l /\ l \in AncestorsOrSelf(tree.par, d) }
LastDrawnBelow(l) == CHOOSE m \in DrawnBelow(l) : \A k \in DrawnBelow(l) : k <= m
BackEdgesInto(l) ==
    { i \in DOMAIN graph.dot_edges :
         ~graph.dot_edges[i].constraint /\ graph.dot_edges[i].dst = IdOf(l) }
\* What C30 asks of the drawn loop l.
BackEdgeAsClaimed(l) ==
    /\ \A i \in DOMAIN graph.dot_edges :
          graph.dot_edges[i].dst = IdOf(l) => graph.dot_edges[i].src # IdOf(l)
    /\ IF DrawnBelow(l) # {}
       THEN /\ Cardinality(BackEdgesInto(l)) = 1
            /\ \A i \in BackEdgesInto(l) :
                  graph.dot_edges[i].src = IdOf(LastDrawnBelow(l))
       ELSE BackEdgesInto(l) = {}

\* C30 as claimed: after flattening, every drawn loop below which a node was
\* drawn has exactly one edge marked non-layout-affecting into its diagram
\* node, from its last drawn descendant; a drawn loop below which nothing
\* was drawn has none; and no loop has an edge from itself to itself.
C30_DrawnLoopHasOneBackEdge ==
    fpc = "done" =>
       \A l \in DrawnNodes : ClassName(l) = "For" => BackEdgeAsClaimed(l)
\* The same on the trees made of For and Module wrappers only.
C30_OnLoopsAndSteps ==
    (fpc = "done" /\ LoopsAndSteps) =>
       \A l \in DrawnNodes : ClassName(l) = "For" => BackEdgeAsClaimed(l)

(***************************************************************************)
(* C31.  A non-drawn node hands its predecessor and label to its children. *)
(***************************************************************************)
\* The first node drawn below u, in visit order.
FirstDrawnBelow(u) == CHOOSE m \in DrawnBelow(u) : \A k \in DrawnBelow(u) : m <= k
\* Only the edge source: the first node drawn below a non-drawn first child
\* of a drawn loop hangs on the loop.
C31_PredecessorIsPassedThrough ==
    fpc = "done" =>
       \A l \in DrawnNodes :
          (ClassName(l) = "For" /\ Body(l) # <<>> /\ ~Drawn(Body(l)[1])
             /\ DrawnBelow(Body(l)[1]) # {}) =>
                LET d == FirstDrawnBelow(Body(l)[1]) IN
                /\ Cardinality(LayoutEdgesInto(d)) = 1
                /\ \A i \in LayoutEdgesInto(d) : graph.dot_edges[i].src = IdOf(l)

\* C31 as claimed, where the non-drawn node u is a statement other than a
\* loop and the first child of a drawn loop l: u receives l as predecessor and l's target as label, so the first
\* node drawn below u has one incoming layout-affecting edge, which comes
\* from l and carries l's target, as it would if it stood in u's place.
C31_SkippedNodePassesPredecessorAndLabel ==
    fpc = "done" =>
       \A l \in DrawnNodes :
          (ClassName(l) = "For" /\ Body(l) # <<>> /\ ~Drawn(Body(l)[1])
             /\ ClassName(Body(l)[1]) # "For" /\ DrawnBelow(Body(l)[1]) # {}) =>
                LET d == FirstDrawnBelow(Body(l)[1]) IN
                /\ Cardinality(LayoutEdgesInto(d)) = 1
                /\ \A i \in LayoutEdgesInto(d) :
                      /\ graph.dot_edges[i].src = IdOf(l)
                      /\ graph.dot_edges[i].label = target_text(l)

(***************************************************************************)
(* C32.  The induction-symbol counter of a context.                        *)
(***************************************************************************)
\* The kernels opened through context c, in the order they were opened.
KernelsOf(c) == { kb \in DOMAIN t_owner : t_owner[kb] = c }
\* The first loop a context creates carries the first symbol of its counter.
FirstLoopHasFirstSymbol ==
    \A c \in Contexts : \A kb \in KernelsOf(c) :
       (\A k \in KernelsOf(c) : kb <= k) => nodes[kernels[kb].grid_loop].target = 0

\* C32: the induction-symbol counter is per context: a call made while
\* context b is current leaves the counter of every other context where it
\* was, and the symbols a context hands out depend only on the loops it
\* created itself, so the grid loop of the first kernel of every context
\* carries the first symbol.
C32_SymbolCounterIsPerContext ==
    /\ []FirstLoopHasFirstSymbol
    /\ [][ \A a, b \in Contexts :
             (a # b /\ current = b /\ current' = b)
                => symtile_count_of(a)' = symtile_count_of(a) ]_vars

(***************************************************************************)
(* C33.  The algebraic operators of SymInt.                                *)
(***************************************************************************)
\* C33: each of the seven operators (add, subtract, multiply, floor-divide,
\* modulo, power, negate), on two SymInts or a SymInt and an int in either
\* order, returns a SymInt and does not raise, and leaves the operands as
\* they were.
C33_OperatorsReturnSymIntAndNeverRaise ==
    /\ []((sym_pc = "done" /\ sym_b \in Operands) =>
             (sym_res.err = "ok" /\ sym_res.value.k = "SymInt"))
    /\ [][sym_a' = sym_a /\ sym_b' = sym_b]_vars

(***************************************************************************)
(* C34, C35.  The step registry of a trace Context.                        *)
(***************************************************************************)
\* The errors register_step raises for a duplicate definition.
DuplicateStepDefinition(err) ==
    err \in {"ValueError: Duplicated Step id", "ValueError: Function already registered"}
\* The function of the Step s is registered under an id other than s's own.
RegisteredUnderOtherId(s) ==
    \E sid \in IdsOfFunc(st_steps, step_registry, st_steps[s].func) : sid # st_steps[s].id
\* No function is bound to two step ids in the step registry.
NoFunctionUnderTwoIds ==
    \A func \in Funcs : Cardinality(IdsOfFunc(st_steps, step_registry, func)) <= 1
\* register_step was called on the Step s in this step.
Registers(s) == st_last'.op = "register_step" /\ st_last'.on = s /\ st_last' # st_last

\* C34: registering a Step whose function is already registered under a
\* different step id fails with the duplicate-definition error and leaves
\* the registry as it was, and in every reachable state no function is bound
\* to two step ids.
C34_DuplicateFunctionIsRejected ==
    /\ []NoFunctionUnderTwoIds
    /\ [][ \A s \in DOMAIN st_steps :
             (RegisteredUnderOtherId(s) /\ Registers(s)) =>
                /\ DuplicateStepDefinition(st_last'.err)
                /\ step_registry' = step_registry ]_vars
\* The part of C34 that is a state invariant, and a state where a second
\* Step around a registered function was turned away.
C34_NoFunctionUnderTwoIds == NoFunctionUnderTwoIds
C34_RejectedOnce ==
    /\ st_last.err = "ValueError: Function already registered"
    /\ step_registry # <<>>

\* C35: a second register_step of a Step that already has an id and is
\* registered under it succeeds and leaves the step registry with the same
\* single entry for that id.
C35_ReRegistrationIsIdempotent ==
    [][ \A s \in DOMAIN st_steps :
          (/\ st_steps[s].id \in DOMAIN step_registry
           /\ step_registry[st_steps[s].id] = s
           /\ Registers(s)) =>
              /\ st_last'.err = "ok"
              /\ step_registry' = step_registry ]_vars

(***************************************************************************)
(* C36.  The alignment group of the diagram.                               *)
(***************************************************************************)
\* The loops above node n other than the root handed to the flattener, and
\* the drawn nodes of the top level: those inside no loop body below the
\* root.
LoopsAbove(n) ==
    { a \in AncestorsOrSelf(tree.par, n) \ {n, 1} : ClassName(a) = "For" }
TopLevelVisible == { n \in DrawnNodes : LoopsAbove(n) = {} }
RECURSIVE IdsInOrder(_)
IdsInOrder(S) ==
    IF S = {} THEN <<>>
    ELSE LET n == CHOOSE x \in S : \A y \in S : x <= y
         IN <<IdOf(n)>> \o IdsInOrder(S \ {n})

\* C36: a diagram with a drawn node gets exactly one alignment group, and it
\* lists the top-level visible nodes, each once and in visit order; a node
\* drawn deeper inside a loop body is not in it.
C36_OneAlignmentGroupOfTopLevelNodes ==
    (fpc = "done" /\ DrawnNodes # {}) =>
       /\ Len(visualize(graph)) = 1
       /\ visualize(graph)[1] = IdsInOrder(TopLevelVisible)
\* What the code does instead: the group lists every drawn node once, in
\* visit order, and there is no group when nothing is drawn.
C36_GroupListsEveryDrawnNode ==
    fpc = "done" =>
       visualize(graph) = IF DrawnNodes = {} THEN <<>> ELSE <<IdsInOrder(DrawnNodes)>>

(***************************************************************************)
(* C37.  The backup attribute of an overridden method.                     *)
(***************************************************************************)
\* Every call so far was made by one thread, and no context object is in two
\* open with-blocks: the override contexts are properly nested.
ProperlyNestedOverrides ==
    /\ \A i \in DOMAIN ovr_trace : ovr_trace[i].thread = "t1"
    /\ \A i, j \in DOMAIN ovr_stack["t1"] :
          i # j => ovr_stack["t1"][i] # ovr_stack["t1"][j]
\* The methods of the target classes that existed before any context was
\* entered and that a registered extension overrides.
OverriddenMethods ==
    { s \in ClassSlots : pre_attrs[s] = "original" /\ Replacements(s) # {} }

\* C37: while an override context is active, in every state of properly
\* nested override contexts (inside an inner one and after it exits too),
\* the backup attribute _<TargetClass>_<name> of every overridden method
\* that existed before is the original method.  Stated for the registry of
\* the test, which holds one extension per method.
C37_BackupRefersToOriginal ==
    (ProperlyNestedOverrides /\ ovr_stack["t1"] # <<>> /\ registry = TestRegistry) =>
       \A s \in OverriddenMethods :
          attrs[<<s[1], backup_name(s[1], s[2])>>] = "original"
\* The same while the first context entered is the only one so far.
C37_SingleContextSingleExtension ==
    (ProperlyNestedOverrides /\ Len(ovr_stack["t1"]) = 1 /\ Len(ovr_trace) = 1
        /\ registry = TestRegistry) =>
       \A s \in OverriddenMethods :
          attrs[<<s[1], backup_name(s[1], s[2])>>] = "original"

(***************************************************************************)
(* C38.  Entering a context that is already active.                        *)
(***************************************************************************)
\* c is the only context object that was ever entered.
OnlyEntered(c) == \A d \in Contexts \ {c} : prev_context[d] = Unset
\* The latest enter of c found c itself as the current context.
ReEntered(c) == prev_context[c] = c

\* C38: when a context that is already active is entered again and then
\* exited twice, current() is again what it was before the first enter.
\* Stated from the initial state, where that value is None: once c, the only
\* context ever entered, was re-entered and every enter has been matched by
\* an exit, current() is None.
C38_ReentrantExitsRestoreCurrent ==
    \A c \in Contexts :
       (OnlyEntered(c) /\ ReEntered(c) /\ active = <<>>) => current = NoCtx

(***************************************************************************)
(* C39.  Node ids and the order of the tree.                               *)
(***************************************************************************)
\* The ids in a loop's list of children increase strictly along the list.
ChildIdsIncrease ==
    \A h \in DOMAIN nodes : \A i, j \in DOMAIN nodes[h].inner_nodes :
       i < j => nodes[nodes[h].inner_nodes[i]].id < nodes[nodes[h].inner_nodes[j]].id
\* Every node that has a parent has a greater id than the parent.
ParentIdIsSmaller ==
    \A h \in DOMAIN nodes :
       nodes[h].parent # NoRef => nodes[nodes[h].parent].id < nodes[h].id
\* The ids of the node lines of a kernel's dump increase strictly down the
\* dump (line 1 is the kernel's own line).
DumpIdsIncrease ==
    \A kb \in DOMAIN kernels :
       LET d == KernelDump(kb) IN
       \A i, j \in 2..Len(d) : i < j => d[i].id < d[j].id

\* C39: in every reachable state of a single context the node ids agree with
\* the order of the tree: the ids in every loop's child list increase
\* strictly, every node's id is greater than its parent's, and so the ids of
\* a kernel's pre-order dump increase strictly.
C39_NodeIdsFollowTreeOrder ==
    ChildIdsIncrease /\ ParentIdIsSmaller /\ DumpIdsIncrease
\* A kernel whose grid loop holds a loop with a step in it, followed by a
\* step added after that loop was left: four ids in pre-order.
C39_Witness ==
    \E kb \in DOMAIN kernels :
       LET g == kernels[kb].grid_loop IN
       /\ Len(nodes[g].inner_nodes) = 2
       /\ nodes[nodes[g].inner_nodes[1]].kind = "KernelLoopState"
       /\ Len(nodes[nodes[g].inner_nodes[1]].inner_nodes) = 1
       /\ nodes[nodes[g].inner_nodes[2]].kind = "StepState"
       /\ Len(KernelDump(kb)) = 5

(***************************************************************************)
(* C40.  The context's and the builder's notion of an open kernel.         *)
(***************************************************************************)
\* The builder kb takes itself to be open: in_kernel_scope is true and its
\* current loop is not None.
BuilderOpen(kb) == kernels[kb].in_kernel_scope /\ kernels[kb].current_loop # NoRef
\* KernelBuilder.add_step and add_loop on kb raise "outside of kernel scope".
AddFails(kb) == ~kernels[kb].in_kernel_scope

\* C40: a registered builder is open exactly when it is the current kernel
\* of its context, and add_step and add_loop fail on a builder that is not
\* the current kernel (one the context has closed).
C40_ContextAndBuilderAgreeOnOpenKernel ==
    \A kb \in DOMAIN kernels :
       /\ BuilderOpen(kb) <=> kb = current_kernel
       /\ kb # current_kernel => AddFails(kb)
\* What the code keeps of it: a builder that closed itself accepts no node.
C40_ClosedBuilderRefusesNodes ==
    \A kb \in DOMAIN kernels : ~BuilderOpen(kb) => AddFails(kb)
=========================================================================
